---- MODULE Spec2Model ----
(***************************************************************************)
(* Model of robot.result.xmlelementhandlers: the stack automaton            *)
(* XmlElementHandler, the registry of ElementHandler objects and the        *)
(* result tree the handlers build.                                          *)
(*                                                                          *)
(* Python values are records so that None, strings, floats and datetimes    *)
(* can be held by the same field: None, S("text"), F(microseconds),         *)
(* a datetime record.  XML attribute dictionaries are functions from the    *)
(* keys that are present to plain strings.                                  *)
(***************************************************************************)
EXTENDS Integers, Sequences, FiniteSets, TLC

VARIABLES
    stack,      \* XmlElementHandler._stack: sequence of [handler, result]
    heap,       \* the objects of the result tree, by identity (index)
    open,       \* the event source: the elements currently open, innermost last
    started,    \* the event source: number of open events delivered so far
    err,        \* the exception the last event raised, or NoError
    last,       \* the last event and what the automaton did with it
    profile     \* the event source: which vocabulary the document is drawn from

vars == <<stack, heap, open, started, err, last, profile>>

---------------------------------------------------------------------------
(* Python values *)

None == [none |-> TRUE]
S(s) == [str |-> s]
F(us) == [float_us |-> us]
B(b) == [bool |-> b]

IsStr(v) == "str" \in DOMAIN v

\* Python truthiness of None and of strings: `not ts`, `x or y`.
Truthy(v) == v # None /\ v # S("")

Or(a, b) == IF Truthy(a) THEN a ELSE b

\* Identity of an object on the heap; NullRef is Python's None in the
\* `result` slot of a stack entry.
NullRef == 0

---------------------------------------------------------------------------
(* Elements: elem.tag, elem.attrib, elem.text *)

NoAttrib == [k \in {} |-> ""]

\* elem.get(key, default=None)
Get(elem, key) == IF key \in DOMAIN elem.attrib THEN S(elem.attrib[key]) ELSE None

GetD(elem, key, default) ==
    IF key \in DOMAIN elem.attrib THEN S(elem.attrib[key]) ELSE default

Has(elem, key) == key \in DOMAIN elem.attrib

---------------------------------------------------------------------------
(* The handler classes: `tag` and `children` class attributes *)

RegisteredTags ==
    { "robot", "suite", "test", "kw", "for", "while", "iter", "group", "if",
      "branch", "try", "pattern", "variable", "return", "continue", "break",
      "error", "msg", "status", "doc", "metadata", "item", "meta", "tags",
      "tag", "timeout", "assign", "var", "arguments", "arg", "value",
      "errors", "statistics" }

ClassOfTag ==
    [ robot |-> "RobotHandler", suite |-> "SuiteHandler", test |-> "TestHandler",
      kw |-> "KeywordHandler", for |-> "ForHandler", while |-> "WhileHandler",
      iter |-> "IterationHandler", group |-> "GroupHandler", if |-> "IfHandler",
      branch |-> "BranchHandler", try |-> "TryHandler",
      pattern |-> "PatternHandler", variable |-> "VariableHandler",
      return |-> "ReturnHandler", continue |-> "ContinueHandler",
      break |-> "BreakHandler", error |-> "ErrorHandler", msg |-> "MessageHandler",
      status |-> "StatusHandler", doc |-> "DocHandler",
      metadata |-> "MetadataHandler", item |-> "MetadataItemHandler",
      meta |-> "MetaHandler", tags |-> "TagsHandler", tag |-> "TagHandler",
      timeout |-> "TimeoutHandler", assign |-> "AssignHandler",
      var |-> "VarHandler", arguments |-> "ArgumentsHandler",
      arg |-> "ArgumentHandler", value |-> "ValueHandler",
      errors |-> "ErrorsHandler", statistics |-> "StatisticsHandler" ]

\* A handler object: its class and, for StatusHandler, its set_status field.
Handler(cls, set_status) == [cls |-> cls, set_status |-> set_status]

RootHandlerObj == Handler("RootHandler", TRUE)

\* ElementHandler.element_handlers: one instance per registered tag,
\* built by the no-argument constructor (StatusHandler: set_status=True).
element_handlers == [t \in RegisteredTags |-> Handler(ClassOfTag[t], TRUE)]

\* The `tag` class attribute; RootHandler inherits tag = None and
\* ErrorMessageHandler inherits "msg" from MessageHandler.
TagOf(h) ==
    CASE h.cls = "RootHandler" -> "None"
      [] h.cls = "ErrorMessageHandler" -> "msg"
      [] OTHER -> CHOOSE t \in RegisteredTags : ClassOfTag[t] = h.cls

ControlTags ==
    { "kw", "if", "for", "try", "while", "group", "variable", "return",
      "break", "continue", "error" }

\* The `children` class attribute (frozenset() where a class sets none).
ChildrenOf(h) ==
    CASE h.cls = "RootHandler" -> {"robot", "suite"}
      [] h.cls = "RobotHandler" -> {"suite", "statistics", "errors"}
      [] h.cls = "SuiteHandler" ->
            {"doc", "metadata", "meta", "status", "kw", "test", "suite"}
      [] h.cls = "TestHandler" ->
            {"doc", "tags", "tag", "timeout", "status", "msg"} \cup ControlTags
      [] h.cls = "KeywordHandler" ->
            {"doc", "arguments", "arg", "assign", "var", "tags", "tag",
             "timeout", "status", "msg"} \cup ControlTags
      [] h.cls = "ForHandler" ->
            {"var", "value", "iter", "status", "doc", "msg", "kw"}
      [] h.cls = "WhileHandler" -> {"iter", "status", "doc", "msg", "kw"}
      [] h.cls = "IterationHandler" ->
            {"var", "doc", "status", "msg"} \cup ControlTags
      [] h.cls = "GroupHandler" -> {"status", "msg"} \cup ControlTags
      [] h.cls = "IfHandler" -> {"branch", "status", "doc", "msg", "kw"}
      [] h.cls = "BranchHandler" ->
            {"status", "msg", "doc", "pattern"} \cup ControlTags
      [] h.cls = "TryHandler" -> {"branch", "status", "doc", "msg", "kw"}
      [] h.cls = "VariableHandler" -> {"var", "status", "msg", "kw"}
      [] h.cls = "ReturnHandler" -> {"value", "status", "msg", "kw"}
      [] h.cls = "ContinueHandler" -> {"status", "msg", "kw"}
      [] h.cls = "BreakHandler" -> {"status", "msg", "kw"}
      [] h.cls = "ErrorHandler" -> {"status", "msg", "value", "kw"}
      [] h.cls = "MetadataHandler" -> {"item"}
      [] h.cls = "TagsHandler" -> {"tag"}
      [] h.cls = "AssignHandler" -> {"var"}
      [] h.cls = "ArgumentsHandler" -> {"arg"}
      [] OTHER -> {}

---------------------------------------------------------------------------
(* Exceptions.  An event that raises leaves `err` set; the parse is then    *)
(* over (the exception unwinds the caller's loop over the events).          *)

NoError == [type |-> "NoError"]

\* DataError("Incompatible child element '<child>' for '<parent>'.")
IncompatibleChild(child, parent) ==
    [type |-> "DataError", msg |-> "Incompatible child element", child |-> child,
     parent |-> parent]

\* DataError("Incompatible root element '<child>'.")
IncompatibleRoot(child) ==
    [type |-> "DataError", msg |-> "Incompatible root element", child |-> child]

\* DataError("Invalid element '<elem>' for result '<result>'.")
InvalidElement(tag, kind) ==
    [type |-> "DataError", msg |-> "Invalid element", child |-> tag, result |-> kind]

AttributeError(name) == [type |-> "AttributeError", attr |-> name]

TypeError(name) == [type |-> "TypeError", attr |-> name]

ValueError(what) == [type |-> "ValueError", what |-> what]

---------------------------------------------------------------------------
(* The node model: the objects the handlers create and assign to.  A node   *)
(* is a record holding exactly the attributes its kind has, so that         *)
(* `hasattr` and AttributeError are membership in DOMAIN.                   *)

T(seq) == [tuple |-> seq]
L(seq) == [list |-> seq]
M(pairs) == [map |-> pairs]
IsTuple(v) == "tuple" \in DOMAIN v
IsList(v) == "list" \in DOMAIN v

PASS == S("PASS")
FAIL == S("FAIL")

\* status, timing and message fields shared by the nodes that have a status
StatusFields ==
    [status |-> FAIL, start_time |-> None, end_time |-> None,
     elapsed_time |-> None, message |-> S("")]

NewResult ==
    [kind |-> "Result", generator |-> None, generation_time |-> None,
     rpa |-> None, suite |-> 2, errors |-> 3]

\* A suite's status is the aggregate of its tests; no status tag sets it.
NewSuite(name, source, rpa) ==
    [kind |-> "Suite", type |-> S("SUITE"), name |-> name, source |-> source,
     rpa |-> rpa, doc |-> S(""), metadata |-> M(<<>>), setup |-> NullRef,
     teardown |-> NullRef, suites |-> <<>>, tests |-> <<>>, status |-> None,
     start_time |-> None, end_time |-> None, elapsed_time |-> None,
     message |-> S("")]

NewErrors == [kind |-> "Errors", messages |-> <<>>]

NewTest(name, lineno) ==
    [kind |-> "Test", type |-> S("TEST"), name |-> name, lineno |-> lineno,
     doc |-> S(""), tags |-> <<>>, timeout |-> None, setup |-> NullRef,
     teardown |-> NullRef, body |-> <<>>] @@ StatusFields

NewKeyword(name, owner, source_name, type) ==
    [kind |-> "Keyword", type |-> type, name |-> name, owner |-> owner,
     source_name |-> source_name, doc |-> S(""), args |-> T(<<>>),
     assign |-> T(<<>>), tags |-> <<>>, timeout |-> None, body |-> <<>>]
    @@ StatusFields

NewFor(flavor, start, mode, fill) ==
    [kind |-> "For", type |-> S("FOR"), flavor |-> flavor, start |-> start,
     mode |-> mode, fill |-> fill, assign |-> T(<<>>), values |-> T(<<>>),
     body |-> <<>>] @@ StatusFields

NewWhile(condition, limit, on_limit, on_limit_message) ==
    [kind |-> "While", type |-> S("WHILE"), condition |-> condition,
     limit |-> limit, on_limit |-> on_limit,
     on_limit_message |-> on_limit_message, body |-> <<>>] @@ StatusFields

\* An iteration's assign is a mapping: M of a sequence of <<name, value>>
\* pairs in insertion order, one pair per name.
NewIteration ==
    [kind |-> "Iteration", type |-> S("ITERATION"), assign |-> M(<<>>),
     body |-> <<>>] @@ StatusFields

NewGroup(name) ==
    [kind |-> "Group", type |-> S("GROUP"), name |-> name, body |-> <<>>]
    @@ StatusFields

NewIf == [kind |-> "If", type |-> S("IF/ELSE ROOT"), body |-> <<>>] @@ StatusFields

NewTry == [kind |-> "Try", type |-> S("TRY/EXCEPT ROOT"), body |-> <<>>] @@ StatusFields

BranchKwargs == {"type", "condition", "pattern_type", "assign"}

NewBranch ==
    [kind |-> "Branch", type |-> S("IF"), condition |-> None,
     pattern_type |-> None, assign |-> None, patterns |-> T(<<>>),
     body |-> <<>>] @@ StatusFields

NewVar(name, scope, separator) ==
    [kind |-> "Var", type |-> S("VAR"), name |-> name, scope |-> scope,
     separator |-> separator, value |-> T(<<>>), body |-> <<>>] @@ StatusFields

NewReturn ==
    [kind |-> "Return", type |-> S("RETURN"), values |-> T(<<>>), body |-> <<>>]
    @@ StatusFields

NewContinue == [kind |-> "Continue", type |-> S("CONTINUE"), body |-> <<>>] @@ StatusFields

NewBreak == [kind |-> "Break", type |-> S("BREAK"), body |-> <<>>] @@ StatusFields

NewError ==
    [kind |-> "Error", type |-> S("ERROR"), values |-> T(<<>>), body |-> <<>>]
    @@ StatusFields

NewMessage(text, level, html, timestamp) ==
    [kind |-> "Message", type |-> S("MESSAGE"), message |-> text, level |-> level,
     html |-> html, timestamp |-> timestamp]

\* hasattr(obj, name)
HasAttr(node, name) == name \in DOMAIN node

\* Keyword.__bool__: a fixture that has not been configured has name None.
Bool(node) == node.name # None

\* The heap right after Result() is constructed: the Result, its root
\* suite and its errors object.
InitHeap == <<NewResult, NewSuite(S(""), None, None), NewErrors>>

\* A computed value, or the exception computing it raised.
Val(v) == [val |-> v, exc |-> NoError]
Exc(e) == [val |-> None, exc |-> e]

\* Outcome of an operation on the heap: the heap it leaves, the object it
\* returns and the exception it raised (NoError: it returned).
Ret(h, ref) == [heap |-> h, ref |-> ref, exc |-> NoError]
Raise(h, exc) == [heap |-> h, ref |-> NullRef, exc |-> exc]

\* Variant: the child is put in front of the collection.
Create_Front(h, parent, coll, node) ==
    LET id == Len(h) + 1
    IN  Ret(Append([h EXCEPT ![parent][coll] = <<id>> \o @], node), id)

\* collection.create(...) / body.create_xxx(...): construct the child,
\* append it to the parent's collection, return it.
Create(h, parent, coll, node) ==
    LET id == Len(h) + 1
    IN  Ret(Append([h EXCEPT ![parent][coll] = Append(@, id)], node), id)

\* result.body.create_xxx(...) where result may have no body attribute
CreateInBody(h, parent, node) ==
    IF HasAttr(h[parent], "body")
    THEN Create(h, parent, "body", node)
    ELSE Raise(h, AttributeError("body"))

\* Variant: every read creates the fixture anew.
Fixture_AlwaysNew(h, owner, kw_type) ==
    IF ~HasAttr(h[owner], kw_type)
    THEN Raise(h, AttributeError(kw_type))
    ELSE LET id == Len(h) + 1
             type == IF kw_type = "setup" THEN S("SETUP") ELSE S("TEARDOWN")
         IN  Ret(Append([h EXCEPT ![owner][kw_type] = id],
                        NewKeyword(None, None, None, type)), id)

\* The setup / teardown property: created on first read with name None,
\* the same object on every later read.
Fixture(h, owner, kw_type) ==
    IF ~HasAttr(h[owner], kw_type)
    THEN Raise(h, AttributeError(kw_type))
    ELSE IF h[owner][kw_type] # NullRef
    THEN Ret(h, h[owner][kw_type])
    ELSE LET id == Len(h) + 1
             type == IF kw_type = "setup" THEN S("SETUP") ELSE S("TEARDOWN")
         IN  Ret(Append([h EXCEPT ![owner][kw_type] = id],
                        NewKeyword(None, None, None, type)), id)

\* obj.name = value on an object without that attribute (__slots__)
SetField(h, ref, name, value) ==
    IF HasAttr(h[ref], name)
    THEN Ret([h EXCEPT ![ref][name] = value], ref)
    ELSE Raise(h, AttributeError(name))

\* The assignment obj.name = value as the statement after the one whose
\* outcome is `out`: it does not run when that one raised.
SetFieldAfter(out, ref, name, value) ==
    IF out.exc # NoError THEN out ELSE SetField(out.heap, ref, name, value)

\* The same for a value whose computation may raise: v is the value or the
\* exception.
SetFieldVal(out, ref, name, v) ==
    IF out.exc # NoError THEN out
    ELSE IF v.exc # NoError THEN Raise(out.heap, v.exc)
    ELSE SetField(out.heap, ref, name, v.val)

\* if cond: obj.name = value
SetFieldIf(cond, out, ref, name, value) ==
    IF cond THEN SetFieldAfter(out, ref, name, value) ELSE out

\* Attributes without a setter: a body item's discriminant and the class
\* constants (the classes have __slots__, so an instance cannot shadow a
\* class attribute).
ReadOnlyAttrs == {"type", "KEYWORD_TYPES"}

\* Variant: every attribute the object has can be assigned.
SetAttr_Writable(node, name, value) ==
    [node |-> [node EXCEPT ![name] = value], exc |-> NoError]

\* setattr(obj, name, value) for an attribute the object has
SetAttr(node, name, value) ==
    IF name \in ReadOnlyAttrs
    THEN [node |-> node, exc |-> AttributeError(name)]
    ELSE [node |-> [node EXCEPT ![name] = value], exc |-> NoError]

---------------------------------------------------------------------------
(* Strings as characters, for the conversions that read them by position  *)

Digits == <<"0", "1", "2", "3", "4", "5", "6", "7", "8", "9">>

IsDigit(c) == \E i \in 1..10 : Digits[i] = c

DigitVal(c) == (CHOOSE i \in 1..10 : Digits[i] = c) - 1

\* "".join(cs)
RECURSIVE Text(_)
Text(cs) == IF cs = <<>> THEN "" ELSE cs[1] \o Text(Tail(cs))

\* The characters of a number written with two and with four digits.
D2(n) == << Digits[(n \div 10) + 1], Digits[(n % 10) + 1] >>
D4(n) == D2(n \div 100) \o D2(n % 100)

\* The fraction of a second as written: none, or milliseconds.
Fraction(ms) == IF ms < 0 THEN <<>> ELSE <<".">> \o Tail(D4(ms))

\* A legacy timestamp YYYYMMDD hh:mm:ss[.mmm], with the given characters
\* between its fields.
Stamp(y, mo, d, h, mi, sec, ms, seps) ==
    D4(y) \o D2(mo) \o D2(d) \o <<seps[1]>> \o D2(h) \o <<seps[2]>> \o D2(mi)
      \o <<seps[2]>> \o D2(sec) \o Fraction(ms)

StampYears == {1999, 2023}
StampMonths == {1, 12}
StampDays == {1, 31}
StampHours == {0, 23}
StampMinutes == {0, 59}
StampSeconds == {0, 59}
StampMillis == {-1, 0, 123}
StampSeparators == { <<" ", ":">>, <<"T", "-">> }

\* The timestamps given to the legacy parser, as characters.
StampChars ==
    { Stamp(y, mo, d, h, mi, sec, ms, seps) :
        y \in StampYears, mo \in StampMonths, d \in StampDays, h \in StampHours,
        mi \in StampMinutes, sec \in StampSeconds, ms \in StampMillis,
        seps \in StampSeparators }

\* The characters of the strings that are read by position.
Chars(s) ==
    CASE s = "" -> <<>>
      [] s = "N/A" -> <<"N", "/", "A">>
      [] s = "20230101 12:00:00.000" ->
            <<"2","0","2","3","0","1","0","1"," ","1","2",":","0","0",":","0","0",
              ".","0","0","0">>
      [] s = "20230101 12:00:01.500" ->
            <<"2","0","2","3","0","1","0","1"," ","1","2",":","0","0",":","0","1",
              ".","5","0","0">>
      [] s = "20230101 12:00:01" ->
            <<"2","0","2","3","0","1","0","1"," ","1","2",":","0","0",":","0","1">>
      [] s = "2023-01-01T12:00:00.000000" ->
            <<"2","0","2","3","-","0","1","-","0","1","T","1","2",":","0","0",":",
              "0","0",".","0","0","0","0","0","0">>
      [] s = "2023" -> <<"2","0","2","3">>
      [] s = "1.5" -> <<"1", ".", "5">>
      [] s = "0.25" -> <<"0", ".", "2", "5">>
      [] s = "2" -> <<"2">>
      [] s = "1" -> <<"1">>
      [] s = "42" -> <<"4", "2">>
      [] s = "x" -> <<"x">>
      [] OTHER -> CHOOSE cs \in StampChars : Text(cs) = s

\* str.ljust(width, fill)
RECURSIVE Ljust(_, _, _)
Ljust(cs, width, fill) ==
    IF Len(cs) >= width THEN cs ELSE Ljust(Append(cs, fill), width, fill)

\* s[a:b] with 0-based a, exclusive b, clipped to the string as Python does
Slice(cs, a, b) ==
    LET hi == IF b > Len(cs) THEN Len(cs) ELSE b
    IN  IF a >= hi THEN <<>> ELSE SubSeq(cs, a + 1, hi)

AllDigits(cs) == cs # <<>> /\ \A i \in 1..Len(cs) : IsDigit(cs[i])

RECURSIVE DigitsToInt(_)
DigitsToInt(cs) ==
    IF cs = <<>> THEN 0
    ELSE 10 * DigitsToInt(SubSeq(cs, 1, Len(cs) - 1)) + DigitVal(cs[Len(cs)])

Pow10(n) == CASE n = 0 -> 1 [] n = 1 -> 10 [] n = 2 -> 100 [] n = 3 -> 1000
              [] n = 4 -> 10000 [] n = 5 -> 100000 [] n = 6 -> 1000000

\* float(text) for texts of the form digits or digits.digits (at most six
\* decimals), as a whole number of microseconds; ValueError otherwise.
ParseFloat(s) ==
    LET cs == Chars(s)
        dots == {i \in 1..Len(cs) : cs[i] = "."}
        dot == IF dots = {} THEN Len(cs) + 1 ELSE CHOOSE i \in dots : TRUE
        whole == SubSeq(cs, 1, dot - 1)
        frac == SubSeq(cs, dot + 1, Len(cs))
    IN  IF Cardinality(dots) <= 1 /\ AllDigits(whole)
           /\ (dots = {} \/ AllDigits(frac)) /\ Len(frac) <= 6
        THEN Val(F(DigitsToInt(whole) * 1000000
                   + DigitsToInt(frac) * Pow10(6 - Len(frac))))
        ELSE Exc(ValueError("float"))

DateTime(y, mo, d, h, mi, s, us) ==
    [year |-> y, month |-> mo, day |-> d, hour |-> h, minute |-> mi,
     second |-> s, microsecond |-> us]

\* The ranges datetime() accepts (day checked against 31 only).
ValidDateTime(dt) ==
    /\ dt.year \in 1..9999 /\ dt.month \in 1..12 /\ dt.day \in 1..31
    /\ dt.hour \in 0..23 /\ dt.minute \in 0..59 /\ dt.second \in 0..59
    /\ dt.microsecond \in 0..999999

\* int(text): the digits' value, ValueError for anything else.  (Python
\* also accepts a sign, underscores and surrounding blanks.)
IntOk(cs) == AllDigits(cs)

---------------------------------------------------------------------------
(* ElementHandler._parse_legacy_timestamp and _legacy_timestamp *)

PadWidth == 24

\* Variant: the timestamp is sliced without being padded to 24 characters.
_parse_legacy_timestamp_NoPad(ts) ==
    IF ts = S("N/A") \/ ~Truthy(ts) THEN Val(None)
    ELSE LET cs == Chars(ts.str)
             parts == << Slice(cs, 0, 4), Slice(cs, 4, 6), Slice(cs, 6, 8),
                         Slice(cs, 9, 11), Slice(cs, 12, 14), Slice(cs, 15, 17),
                         Slice(cs, 18, 24) >>
         IN  IF \E i \in 1..7 : ~IntOk(parts[i])
             THEN Exc(ValueError("int"))
             ELSE LET dt == DateTime(DigitsToInt(parts[1]), DigitsToInt(parts[2]),
                                     DigitsToInt(parts[3]), DigitsToInt(parts[4]),
                                     DigitsToInt(parts[5]), DigitsToInt(parts[6]),
                                     DigitsToInt(parts[7]))
                  IN  IF ValidDateTime(dt) THEN Val(dt)
                      ELSE Exc(ValueError("datetime"))

\* Variant: the fraction is read as written, three digits as microseconds.
_parse_legacy_timestamp_Millis(ts) ==
    IF ts = S("N/A") \/ ~Truthy(ts) THEN Val(None)
    ELSE LET cs == Chars(ts.str)
             parts == << Slice(cs, 0, 4), Slice(cs, 4, 6), Slice(cs, 6, 8),
                         Slice(cs, 9, 11), Slice(cs, 12, 14), Slice(cs, 15, 17),
                         Slice(cs, 18, 24) >>
         IN  IF \E i \in 1..6 : ~IntOk(parts[i])
             THEN Exc(ValueError("int"))
             ELSE Val(DateTime(DigitsToInt(parts[1]), DigitsToInt(parts[2]),
                               DigitsToInt(parts[3]), DigitsToInt(parts[4]),
                               DigitsToInt(parts[5]), DigitsToInt(parts[6]),
                               DigitsToInt(parts[7])))

_parse_legacy_timestamp(ts) ==
    IF ts = S("N/A") \/ ~Truthy(ts) THEN Val(None)
    ELSE LET cs == Ljust(Chars(ts.str), PadWidth, "0")
             parts == << Slice(cs, 0, 4), Slice(cs, 4, 6), Slice(cs, 6, 8),
                         Slice(cs, 9, 11), Slice(cs, 12, 14), Slice(cs, 15, 17),
                         Slice(cs, 18, 24) >>
         IN  IF \E i \in 1..7 : ~IntOk(parts[i])
             THEN Exc(ValueError("int"))
             ELSE LET dt == DateTime(DigitsToInt(parts[1]), DigitsToInt(parts[2]),
                                     DigitsToInt(parts[3]), DigitsToInt(parts[4]),
                                     DigitsToInt(parts[5]), DigitsToInt(parts[6]),
                                     DigitsToInt(parts[7]))
                  IN  IF ValidDateTime(dt) THEN Val(dt)
                      ELSE Exc(ValueError("datetime"))

_legacy_timestamp(elem, attr_name) == _parse_legacy_timestamp(Get(elem, attr_name))

\* datetime.fromisoformat for the extended form YYYY-MM-DD?hh:mm:ss[.ffffff];
\* ValueError for the other texts enumerated here.
FromIsoFormat(s) ==
    LET cs == Chars(s)
        parts == << Slice(cs, 0, 4), Slice(cs, 5, 7), Slice(cs, 8, 10),
                    Slice(cs, 11, 13), Slice(cs, 14, 16), Slice(cs, 17, 19) >>
        frac == Ljust(Slice(cs, 20, 26), 6, "0")
    IN  IF /\ Len(cs) \in {19, 23, 26}
           /\ cs[5] = "-" /\ cs[8] = "-" /\ cs[14] = ":" /\ cs[17] = ":"
           /\ (Len(cs) > 19 => cs[20] = ".")
           /\ \A i \in 1..6 : IntOk(parts[i])
           /\ IntOk(frac)
        THEN LET dt == DateTime(DigitsToInt(parts[1]), DigitsToInt(parts[2]),
                                DigitsToInt(parts[3]), DigitsToInt(parts[4]),
                                DigitsToInt(parts[5]), DigitsToInt(parts[6]),
                                DigitsToInt(frac))
             IN  IF ValidDateTime(dt) THEN Val(dt) ELSE Exc(ValueError("datetime"))
        ELSE Exc(ValueError("fromisoformat"))

\* RobotHandler._parse_generation_time
_parse_generation_time(generated) ==
    IF ~Truthy(generated) THEN Val(None)
    ELSE IF FromIsoFormat(generated.str).exc = NoError
    THEN FromIsoFormat(generated.str)
    ELSE _parse_legacy_timestamp(generated)

---------------------------------------------------------------------------
(* ModelObject.config *)

Iterable(v) == IsTuple(v) \/ IsList(v) \/ IsStr(v)

\* Variant: the value is assigned as it is given.
ToTuple_Keep(v) == v

\* tuple(value)
ToTuple(v) ==
    IF IsList(v) THEN T(v.list)
    ELSE IF IsStr(v) THEN T([i \in 1..Len(Chars(v.str)) |-> S(Chars(v.str)[i])])
    ELSE v

\* Variant: a rejected assignment is never ignored.
Tolerated_Never(value, orig) == FALSE

\* Variant: a rejected assignment is always ignored.
Tolerated_Always(value, orig) == TRUE

\* The test under `except AttributeError`: the error of setattr is
\* ignored if the object already has the value.
Tolerated(value, orig) == value = orig

\* config(**attributes) on one object; attributes is the sequence of
\* <<name, value>> pairs in keyword order.  Returns the object as the
\* call leaves it and the exception raised, if any.
RECURSIVE ConfigNode(_, _)
ConfigNode(node, attributes) ==
    IF attributes = <<>> THEN [node |-> node, exc |-> NoError]
    ELSE
      LET name == attributes[1][1]
          value == attributes[1][2]
      IN  IF ~HasAttr(node, name)
          THEN [node |-> node, exc |-> AttributeError(name)]
          ELSE
            LET orig == node[name]
                coerce == IsTuple(orig) /\ ~IsTuple(value)
            IN  IF coerce /\ ~Iterable(value)
                THEN [node |-> node, exc |-> TypeError(name)]
                ELSE
                  LET v == IF coerce THEN ToTuple(value) ELSE value
                      set == SetAttr(node, name, v)
                  IN  IF set.exc = NoError
                      THEN ConfigNode(set.node, Tail(attributes))
                      ELSE IF ~Tolerated(v, orig)
                      THEN [node |-> node, exc |-> AttributeError(name)]
                      ELSE ConfigNode(node, Tail(attributes))

\* The heap and the outcome once config has run on the object.
Configured(h, ref, r) ==
    IF r.exc = NoError THEN Ret([h EXCEPT ![ref] = r.node], ref)
    ELSE Raise([h EXCEPT ![ref] = r.node], r.exc)

\* Variant: a config call that raises leaves the object as it was.
Config_Atomic(h, ref, attributes) ==
    IF ConfigNode(h[ref], attributes).exc = NoError
    THEN Configured(h, ref, ConfigNode(h[ref], attributes))
    ELSE Raise(h, ConfigNode(h[ref], attributes).exc)

\* obj.config(...) for an object on the heap; returns the object itself.
Config(h, ref, attributes) ==
    Configured(h, ref, ConfigNode(h[ref], attributes))

\* out.ref.config(**attributes) where `out` is the outcome of reading the
\* object.
ConfigAfter(out, attributes) ==
    IF out.exc # NoError THEN out ELSE Config(out.heap, out.ref, attributes)

---------------------------------------------------------------------------
(* The handlers' start operations.  Each takes the element, the heap and    *)
(* the parent object `result` and returns the heap, the object to push and  *)
(* the exception raised, if any.                                            *)

\* str.lower() on the type attribute values a kw element carries, on tags
\* and on the importer's type.
Lower(s) ==
    CASE s = "SETUP" -> "setup" [] s = "TEARDOWN" -> "teardown"
      [] s = "KEYWORD" -> "keyword" [] s = "FOR" -> "for"
      [] s = "ITERATION" -> "iteration" [] s = "T2" -> "t2"
      [] s = "T0" -> "t0"
      [] s = "Library" -> "library"
      [] OTHER -> s

\* Variant: the rpa flag is assigned whatever it was before.
RobotStartRpa_Always(elem, result, out) ==
    IF out.exc # NoError THEN out
    ELSE SetFieldAfter(out, result, "rpa",
                       B(GetD(elem, "rpa", S("false")) = S("true")))

\* RobotHandler.start, its last statement: if result.rpa is None: ...
RobotStartRpa(elem, result, out) ==
    IF out.exc # NoError THEN out
    ELSE IF ~HasAttr(out.heap[result], "rpa")
    THEN Raise(out.heap, AttributeError("rpa"))
    ELSE SetFieldIf(out.heap[result].rpa = None, out, result, "rpa",
                    B(GetD(elem, "rpa", S("false")) = S("true")))

\* RobotHandler.start
RobotStart(elem, h, result) ==
    RobotStartRpa(elem, result,
        SetFieldVal(SetField(h, result, "generator",
                             GetD(elem, "generator", S("unknown"))),
                    result, "generation_time",
                    _parse_generation_time(Get(elem, "generated"))))

\* SuiteHandler.start
SuiteStart(elem, h, result) ==
    IF ~HasAttr(h[result], "rpa") THEN Raise(h, AttributeError("rpa"))
    ELSE IF HasAttr(h[result], "suite")
    THEN Config(h, h[result].suite,
                << <<"name", GetD(elem, "name", S(""))>>,
                   <<"source", Get(elem, "source")>>,
                   <<"rpa", h[result].rpa>> >>)
    ELSE IF ~HasAttr(h[result], "suites")
    THEN Raise(h, AttributeError("suites"))
    ELSE Create(h, result, "suites",
                NewSuite(GetD(elem, "name", S("")), Get(elem, "source"),
                         h[result].rpa))

\* TestHandler.start
TestStart(elem, h, result) ==
    LET lineno == Get(elem, "line")
    IN  IF Truthy(lineno) /\ ~IntOk(Chars(lineno.str))
        THEN Raise(h, ValueError("int"))
        ELSE IF ~HasAttr(h[result], "tests")
        THEN Raise(h, AttributeError("tests"))
        ELSE Create(h, result, "tests",
                    NewTest(GetD(elem, "name", S("")),
                            IF Truthy(lineno)
                            THEN [int |-> DigitsToInt(Chars(lineno.str))]
                            ELSE lineno))

\* KeywordHandler._get_keyword_attrs
_get_keyword_attrs(elem) ==
    << <<"name", GetD(elem, "name", S(""))>>,
       <<"owner", Or(Get(elem, "owner"), Get(elem, "library"))>>,
       <<"source_name", Or(Get(elem, "source_name"), Get(elem, "sourcename"))>> >>

\* Variant: only the tests recorded so far decide between setup and teardown.
SuiteLevelKwType_TestsOnly(suite) ==
    IF suite.tests # <<>> THEN "teardown" ELSE "setup"

\* kw_type = "teardown" if result.tests or result.suites else "setup"
SuiteLevelKwType(suite) ==
    IF suite.tests # <<>> \/ suite.suites # <<>> THEN "teardown" ELSE "setup"

\* Variant: the fixture is configured as a placeholder on every call.
ImplicitFixture_AlwaysConfig(kw_type, keyword) ==
    ConfigAfter(keyword, << <<"name", S("Implicit " \o kw_type)>>,
                            <<"status", PASS>> >>)

\* if not keyword: keyword.config(name=f"Implicit {kw_type}", status=PASS)
ImplicitFixture(kw_type, keyword) ==
    IF keyword.exc # NoError THEN keyword
    ELSE IF ~Bool(keyword.heap[keyword.ref])
    THEN ConfigAfter(keyword, << <<"name", S("Implicit " \o kw_type)>>,
                                 <<"status", PASS>> >>)
    ELSE keyword

\* KeywordHandler._get_body_for_suite_level_keyword: returns the object
\* whose body receives the keyword.
_get_body_for_suite_level_keyword(h, result) ==
    IF ~HasAttr(h[result], "tests") THEN Raise(h, AttributeError("tests"))
    ELSE IF ~HasAttr(h[result], "suites") THEN Raise(h, AttributeError("suites"))
    ELSE ImplicitFixture(SuiteLevelKwType(h[result]),
                         Fixture(h, result, SuiteLevelKwType(h[result])))

\* body.create_keyword(**self._get_keyword_attrs(elem)), `owner` being the
\* outcome of finding the object whose body it is.
CreateKeywordIn(elem, owner) ==
    IF owner.exc # NoError THEN owner
    ELSE Create(owner.heap, owner.ref, "body",
                NewKeyword(_get_keyword_attrs(elem)[1][2],
                           _get_keyword_attrs(elem)[2][2],
                           _get_keyword_attrs(elem)[3][2], S("KEYWORD")))

\* KeywordHandler._create_keyword
_create_keyword(elem, h, result) ==
    CreateKeywordIn(elem, IF HasAttr(h[result], "body") THEN Ret(h, result)
                          ELSE _get_body_for_suite_level_keyword(h, result))

\* Variant: an explicit setup / teardown tag replaces the fixture by a new
\* keyword.
_create_fixture_Replace(elem, h, result, kw_type) ==
    IF ~HasAttr(h[result], kw_type) THEN Raise(h, AttributeError(kw_type))
    ELSE Ret(Append([h EXCEPT ![result][kw_type] = Len(h) + 1],
                    NewKeyword(_get_keyword_attrs(elem)[1][2],
                               _get_keyword_attrs(elem)[2][2],
                               _get_keyword_attrs(elem)[3][2],
                               IF kw_type = "setup" THEN S("SETUP") ELSE S("TEARDOWN"))),
             Len(h) + 1)

\* KeywordHandler._create_setup / _create_teardown
_create_fixture(elem, h, result, kw_type) ==
    ConfigAfter(Fixture(h, result, kw_type), _get_keyword_attrs(elem))

_create_setup(elem, h, result) == _create_fixture(elem, h, result, "setup")

_create_teardown(elem, h, result) == _create_fixture(elem, h, result, "teardown")

\* Variant: a legacy for loop becomes a For node.
_create_for_ForNode(elem, h, result) ==
    CreateInBody(h, result, NewFor(S("IN"), None, None, None))

\* KeywordHandler._create_for
_create_for(elem, h, result) ==
    CreateInBody(h, result, NewKeyword(Get(elem, "name"), None, None, S("FOR")))

\* KeywordHandler._create_foritem, also bound as _create_iteration
_create_foritem(elem, h, result) ==
    CreateInBody(h, result, NewKeyword(Get(elem, "name"), None, None, S("ITERATION")))

\* KeywordHandler.start: getattr(self, "_create_" + elem_type.lower())
KeywordStart(elem, h, result) ==
    LET elem_type == Get(elem, "type")
        creator == IF ~Truthy(elem_type) THEN "keyword" ELSE Lower(elem_type.str)
    IN  CASE creator = "keyword" -> _create_keyword(elem, h, result)
          [] creator = "setup" -> _create_setup(elem, h, result)
          [] creator = "teardown" -> _create_teardown(elem, h, result)
          [] creator = "for" -> _create_for(elem, h, result)
          [] creator \in {"foritem", "iteration"} -> _create_foritem(elem, h, result)
          [] OTHER -> Raise(h, AttributeError("_create_" \o creator))

\* Variant: the variable attribute is passed on as it is.
BranchAttrib_NoRename(attrib) == attrib

\* BranchHandler.start, the part that rewrites elem.attrib
BranchAttrib(attrib) ==
    IF "variable" \in DOMAIN attrib
    THEN [k \in (DOMAIN attrib \ {"variable"}) \cup {"assign"} |->
            IF k = "assign" THEN attrib["variable"] ELSE attrib[k]]
    ELSE attrib

\* BranchHandler.start: result.body.create_branch(**elem.attrib)
BranchStart(elem, h, result) ==
    LET attrib == BranchAttrib(elem.attrib)
        kwargs == [k \in BranchKwargs |->
                     IF k \in DOMAIN attrib THEN S(attrib[k]) ELSE NewBranch[k]]
    IN  IF ~(DOMAIN attrib \subseteq BranchKwargs)
        THEN Raise(h, TypeError("create_branch"))
        ELSE CreateInBody(h, result, kwargs @@ NewBranch)

\* ErrorsHandler.start
ErrorsStart(elem, h, result) ==
    IF HasAttr(h[result], "errors") THEN Ret(h, h[result].errors)
    ELSE Raise(h, AttributeError("errors"))

\* Variant: the inherited start returns nothing.
DefaultStart_None(elem, h, result) == Ret(h, NullRef)

\* ElementHandler.start: return result
DefaultStart(elem, h, result) == Ret(h, result)

\* handler.start(elem, result), by the handler's class; ElementHandler.start
\* for the classes that do not override it.
HandlerStart(handler, elem, h, result) ==
    CASE handler.cls = "RobotHandler" -> RobotStart(elem, h, result)
      [] handler.cls = "SuiteHandler" -> SuiteStart(elem, h, result)
      [] handler.cls = "TestHandler" -> TestStart(elem, h, result)
      [] handler.cls = "KeywordHandler" -> KeywordStart(elem, h, result)
      [] handler.cls = "ForHandler" ->
            CreateInBody(h, result, NewFor(Get(elem, "flavor"), Get(elem, "start"),
                                           Get(elem, "mode"), Get(elem, "fill")))
      [] handler.cls = "WhileHandler" ->
            CreateInBody(h, result,
                         NewWhile(Get(elem, "condition"), Get(elem, "limit"),
                                  Get(elem, "on_limit"),
                                  Get(elem, "on_limit_message")))
      [] handler.cls = "IterationHandler" -> CreateInBody(h, result, NewIteration)
      [] handler.cls = "GroupHandler" ->
            CreateInBody(h, result, NewGroup(GetD(elem, "name", S(""))))
      [] handler.cls = "IfHandler" -> CreateInBody(h, result, NewIf)
      [] handler.cls = "BranchHandler" -> BranchStart(elem, h, result)
      [] handler.cls = "TryHandler" -> CreateInBody(h, result, NewTry)
      [] handler.cls = "VariableHandler" ->
            CreateInBody(h, result,
                         NewVar(GetD(elem, "name", S("")), Get(elem, "scope"),
                                Get(elem, "separator")))
      [] handler.cls = "ReturnHandler" -> CreateInBody(h, result, NewReturn)
      [] handler.cls = "ContinueHandler" -> CreateInBody(h, result, NewContinue)
      [] handler.cls = "BreakHandler" -> CreateInBody(h, result, NewBreak)
      [] handler.cls = "ErrorHandler" -> CreateInBody(h, result, NewError)
      [] handler.cls = "ErrorsHandler" -> ErrorsStart(elem, h, result)
      [] OTHER -> DefaultStart(elem, h, result)

\* The element as handler.start leaves it (BranchHandler.start pops
\* "variable" from elem.attrib); the close event carries the same element.
ElemAfterStart(handler, elem) ==
    IF handler.cls = "BranchHandler"
    THEN [elem EXCEPT !.attrib = BranchAttrib(elem.attrib)]
    ELSE elem

---------------------------------------------------------------------------
(* The handlers' end operations: same shape as the start operations; the   *)
(* object returned is not used by the automaton.                            *)

\* elem.text or ""
TextOrEmpty(elem) == Or(elem.text, S(""))

\* Variant: the value is put in front.
TupleAppend_Front(h, result, field, value) ==
    IF ~HasAttr(h[result], field) THEN Raise(h, AttributeError(field))
    ELSE IF ~IsTuple(h[result][field]) THEN Raise(h, TypeError(field))
    ELSE Ret([h EXCEPT ![result][field] = T(<<value>> \o @.tuple)], result)

\* result.<field> += (value,)
TupleAppend(h, result, field, value) ==
    IF ~HasAttr(h[result], field) THEN Raise(h, AttributeError(field))
    ELSE IF ~IsTuple(h[result][field]) THEN Raise(h, TypeError(field))
    ELSE Ret([h EXCEPT ![result][field] = T(Append(@.tuple, value))], result)

\* mapping[key] = value: a key keeps its position when it is overwritten.
MapPut(m, key, value) ==
    IF \E i \in 1..Len(m) : m[i][1] = key
    THEN [i \in 1..Len(m) |-> IF m[i][1] = key THEN <<key, value>> ELSE m[i]]
    ELSE Append(m, <<key, value>>)

\* result.<field>[key] = value
ItemAssign(h, result, field, key, value) ==
    IF ~HasAttr(h[result], field) THEN Raise(h, AttributeError(field))
    ELSE IF "map" \notin DOMAIN h[result][field] THEN Raise(h, TypeError(field))
    ELSE Ret([h EXCEPT ![result][field] = M(MapPut(@.map, key, value))], result)

\* Tags: normalized comparison (case-insensitive), sorted iteration.
NormTag(t) == Lower(t)

TagKey(t) ==
    CASE NormTag(t) = "a" -> 1 [] NormTag(t) = "b" -> 2 [] NormTag(t) = "t0" -> 3
      [] NormTag(t) = "t1" -> 4 [] NormTag(t) = "t2" -> 5 [] NormTag(t) = "t3" -> 6
      [] OTHER -> 7

\* Tags.remove(tag): the tags equal to it when normalized are dropped, the
\* others stay as they are.
TagsRemove(tags, t) == SelectSeq(tags, LAMBDA x : NormTag(x) # NormTag(t))

\* Variant: the new tag goes to the end.
TagsAdd_Append(tags, t) ==
    IF NormTag(t) \in {"", "none"} \/ \E i \in 1..Len(tags) : NormTag(tags[i]) = NormTag(t)
    THEN tags
    ELSE Append(tags, t)

\* Tags.add(tag): "" and NONE are dropped, a tag already there (normalized)
\* keeps its first spelling, the rest stay sorted by normalized name.
TagsAdd(tags, t) ==
    IF NormTag(t) \in {"", "none"} \/ \E i \in 1..Len(tags) : NormTag(tags[i]) = NormTag(t)
    THEN tags
    ELSE LET before == SelectSeq(tags, LAMBDA x : TagKey(x) < TagKey(t))
             after == SelectSeq(tags, LAMBDA x : TagKey(x) >= TagKey(t))
         IN  before \o <<t>> \o after

\* creator(text, level, html, timestamp), timestamp being the value the
\* parser returned or the exception it raised.
CreateMessage(elem, h, owner, coll, timestamp) ==
    IF timestamp.exc # NoError THEN Raise(h, timestamp.exc)
    ELSE Create(h, owner, coll,
                NewMessage(TextOrEmpty(elem), GetD(elem, "level", S("INFO")),
                           B(Get(elem, "html") \in {S("true"), S("yes")}),
                           timestamp.val))

\* MessageHandler._create_message; coll is the collection of `owner` the
\* creator appends to.
_create_message(elem, h, owner, coll) ==
    CreateMessage(elem, h, owner, coll,
                  IF Has(elem, "time") THEN Val(S(elem.attrib["time"]))
                  ELSE _legacy_timestamp(elem, "timestamp"))

\* MessageHandler.end
MessageEnd(elem, h, result) ==
    IF ~HasAttr(h[result], "body") THEN Raise(h, AttributeError("body"))
    ELSE _create_message(elem, h, result, "body")

\* ErrorMessageHandler.end
ErrorMessageEnd(elem, h, result) ==
    IF ~HasAttr(h[result], "messages") THEN Raise(h, AttributeError("messages"))
    ELSE _create_message(elem, h, result, "messages")

\* Variant: the legacy end time is read as well when elapsed is present.
StatusTiming_Both(elem, out, result) ==
    IF Has(elem, "elapsed")
    THEN SetFieldVal(
             SetFieldAfter(
                 SetFieldVal(out, result, "elapsed_time",
                             ParseFloat(elem.attrib["elapsed"])),
                 result, "start_time", Get(elem, "start")),
             result, "end_time", _legacy_timestamp(elem, "endtime"))
    ELSE SetFieldVal(
             SetFieldVal(out, result, "start_time",
                         _legacy_timestamp(elem, "starttime")),
             result, "end_time", _legacy_timestamp(elem, "endtime"))

\* StatusHandler.end, the timing part
StatusTiming(elem, out, result) ==
    IF Has(elem, "elapsed")
    THEN SetFieldAfter(
             SetFieldVal(out, result, "elapsed_time",
                         ParseFloat(elem.attrib["elapsed"])),
             result, "start_time", Get(elem, "start"))
    ELSE SetFieldVal(
             SetFieldVal(out, result, "start_time",
                         _legacy_timestamp(elem, "starttime")),
             result, "end_time", _legacy_timestamp(elem, "endtime"))

\* StatusHandler.end
StatusEnd(handler, elem, h, result) ==
    SetFieldIf(Truthy(elem.text),
               StatusTiming(elem,
                            SetFieldIf(handler.set_status, Ret(h, result), result,
                                       "status", GetD(elem, "status", FAIL)),
                            result),
               result, "message", elem.text)

\* DocHandler.end
DocEnd(elem, h, result) ==
    IF HasAttr(h[result], "doc")
    THEN SetField(h, result, "doc", TextOrEmpty(elem))
    ELSE SetField(h, result, "message", TextOrEmpty(elem))

\* MetadataItemHandler.end and MetaHandler.end
MetaEnd(elem, h, result) ==
    ItemAssign(h, result, "metadata", GetD(elem, "name", S("")), TextOrEmpty(elem))

\* TagHandler.end
TagEnd(elem, h, result) ==
    IF ~HasAttr(h[result], "tags") THEN Raise(h, AttributeError("tags"))
    ELSE Ret([h EXCEPT ![result].tags = TagsAdd(@, TextOrEmpty(elem).str)], result)

\* VarHandler.end
VarEnd(elem, h, result) ==
    LET value == TextOrEmpty(elem)
    IN  IF ~HasAttr(h[result], "type") THEN Raise(h, AttributeError("type"))
        ELSE IF h[result].type \in {S("KEYWORD"), S("FOR")}
        THEN TupleAppend(h, result, "assign", value)
        ELSE IF h[result].type = S("ITERATION")
        THEN ItemAssign(h, result, "assign", Get(elem, "name"), value)
        ELSE IF h[result].type = S("VAR")
        THEN TupleAppend(h, result, "value", value)
        ELSE Raise(h, InvalidElement(elem.tag, h[result].kind))

\* handler.end(elem, result), by the handler's class; ElementHandler.end
\* for the classes that do not override it.
HandlerEnd(handler, elem, h, result) ==
    CASE handler.cls = "PatternHandler" ->
            TupleAppend(h, result, "patterns", TextOrEmpty(elem))
      [] handler.cls = "MessageHandler" -> MessageEnd(elem, h, result)
      [] handler.cls = "ErrorMessageHandler" -> ErrorMessageEnd(elem, h, result)
      [] handler.cls = "StatusHandler" -> StatusEnd(handler, elem, h, result)
      [] handler.cls = "DocHandler" -> DocEnd(elem, h, result)
      [] handler.cls \in {"MetadataItemHandler", "MetaHandler"} ->
            MetaEnd(elem, h, result)
      [] handler.cls = "TagHandler" -> TagEnd(elem, h, result)
      [] handler.cls = "TimeoutHandler" ->
            SetField(h, result, "timeout", Get(elem, "value"))
      [] handler.cls = "VarHandler" -> VarEnd(elem, h, result)
      [] handler.cls = "ArgumentHandler" ->
            TupleAppend(h, result, "args", TextOrEmpty(elem))
      [] handler.cls = "ValueHandler" ->
            TupleAppend(h, result, "values", TextOrEmpty(elem))
      [] OTHER -> Ret(h, result)

---------------------------------------------------------------------------
(* get_child_handler *)

\* Outcome of a child lookup
Found(handler) == [handler |-> handler, exc |-> NoError]
NotFound(exc) == [handler |-> RootHandlerObj, exc |-> exc]

\* Variant: the lookup returns any registered handler without consulting
\* the parent's children set.
DefaultGetChildHandler_Unchecked(self, tag) ==
    IF tag \notin RegisteredTags
    THEN NotFound(IncompatibleChild(tag, TagOf(self)))
    ELSE Found(element_handlers[tag])

\* ElementHandler.get_child_handler
DefaultGetChildHandler(self, tag) ==
    IF tag \notin ChildrenOf(self)
    THEN NotFound(IncompatibleChild(tag, TagOf(self)))
    ELSE Found(element_handlers[tag])

\* Variant: the root handler lets the inherited error through unchanged.
RootGetChildHandler_NoRewrap(self, tag) == DefaultGetChildHandler(self, tag)

\* RootHandler.get_child_handler
RootGetChildHandler(self, tag) ==
    IF DefaultGetChildHandler(self, tag).exc.type = "DataError"
    THEN NotFound(IncompatibleRoot(tag))
    ELSE DefaultGetChildHandler(self, tag)

\* Variant: the suite handler does not override the lookup.
SuiteGetChildHandler_Inherited(self, tag) == DefaultGetChildHandler(self, tag)

\* SuiteHandler.get_child_handler
SuiteGetChildHandler(self, tag) ==
    IF tag = "status" THEN Found(Handler("StatusHandler", FALSE))
    ELSE DefaultGetChildHandler(self, tag)

\* ErrorsHandler.get_child_handler
ErrorsGetChildHandler(self, tag) == Found(Handler("ErrorMessageHandler", TRUE))

\* Variant: below statistics the handler registered for the tag is used.
StatisticsGetChildHandler_Registered(self, tag) ==
    IF tag \in DOMAIN element_handlers THEN Found(element_handlers[tag])
    ELSE Found(self)

\* Variant: the statistics handler does not override the lookup.
StatisticsGetChildHandler_Inherited(self, tag) == DefaultGetChildHandler(self, tag)

\* StatisticsHandler.get_child_handler
StatisticsGetChildHandler(self, tag) == Found(self)

\* handler.get_child_handler(tag), by the handler's class
get_child_handler(self, tag) ==
    CASE self.cls = "RootHandler" -> RootGetChildHandler(self, tag)
      [] self.cls = "SuiteHandler" -> SuiteGetChildHandler(self, tag)
      [] self.cls = "ErrorsHandler" -> ErrorsGetChildHandler(self, tag)
      [] self.cls = "StatisticsHandler" -> StatisticsGetChildHandler(self, tag)
      [] OTHER -> DefaultGetChildHandler(self, tag)

---------------------------------------------------------------------------
(* The event source.  It delivers a well-nested stream of open and close   *)
(* events; a document is drawn from one of a few vocabularies (profiles),  *)
(* each with its own tags, attribute dictionaries, texts and length.       *)

MaxElemsShape == 4
MaxElemsFixture == 5
MaxElemsStatus == 4
MaxElemsBranch == 5
MaxElemsRobot == 3
MaxElemsLegacy == 4
MaxElemsWrapper == 5
MaxElemsVar == 5
MaxElemsText == 6
MaxElemsOrder == 6

Profiles == {"shape", "fixture", "status", "branch", "robot"}

\* A tag no handler is registered for (a child of statistics in real output).
UnknownTag == "total"

\* The wrapper elements of RF < 4 and the leaf elements found inside them
\* or directly under the node.
WrapperTags == {"arguments", "tags", "assign", "metadata"}
LeafTags == {"arg", "tag", "var", "item", "meta"}

\* The leaf elements whose text is appended to a tuple of the node.
TextTags == {"arg", "value", "pattern"}

Alphabet(p) ==
    CASE p = "shape" -> RegisteredTags \cup {UnknownTag}
      [] p = "fixture" -> {"suite", "test", "kw"}
      [] p = "status" -> {"suite", "test", "kw", "status"}
      [] p = "branch" -> {"suite", "test", "if", "try", "branch"}
      [] p = "robot" -> {"robot", "suite"}
      [] p = "legacy" -> {"suite", "test", "kw", "for", "iter"}
      [] p = "wrapper" -> {"suite", "test", "kw"} \cup WrapperTags \cup LeafTags
      [] p = "var" -> {"suite", "test", "kw", "for", "iter", "variable", "var"}
      [] p = "text" -> {"suite", "test", "kw", "for", "try", "branch"} \cup TextTags
      [] p = "order" -> {"suite", "test", "kw", "for", "msg"}

MaxElems(p) ==
    CASE p = "shape" -> MaxElemsShape
      [] p = "fixture" -> MaxElemsFixture
      [] p = "status" -> MaxElemsStatus
      [] p = "branch" -> MaxElemsBranch
      [] p = "robot" -> MaxElemsRobot
      [] p = "legacy" -> MaxElemsLegacy
      [] p = "wrapper" -> MaxElemsWrapper
      [] p = "var" -> MaxElemsVar
      [] p = "text" -> MaxElemsText
      [] p = "order" -> MaxElemsOrder

StatusAttribs ==
    { NoAttrib,
      [status |-> "PASS", start |-> "2023-01-01T12:00:00.000000", elapsed |-> "1.5"],
      [status |-> "SKIP", elapsed |-> "0.25"],
      [status |-> "PASS", starttime |-> "20230101 12:00:00.000",
       endtime |-> "20230101 12:00:01.500"],
      [starttime |-> "N/A", endtime |-> "20230101 12:00:01"],
      [starttime |-> "20230101 12:00:00.000", endtime |-> "20230101 12:00:01"],
      [start |-> "2023-01-01T12:00:00.000000", elapsed |-> "1"],
      [status |-> "FAIL", elapsed |-> "x"],
      [status |-> "NOT RUN", start |-> "2023-01-01T12:00:00.000000", elapsed |-> "2",
       starttime |-> "20230101 12:00:00.000", endtime |-> "20230101 12:00:01.500"] }

BranchAttribs ==
    { [type |-> "ELSE IF", condition |-> "$x"],
      [type |-> "EXCEPT", pattern_type |-> "glob", variable |-> "x"],
      [type |-> "EXCEPT", pattern_type |-> "glob", assign |-> "x"],
      [variable |-> "x"], [assign |-> "x"],
      [variable |-> "x", assign |-> "y"],
      [type |-> "ELSE", variables |-> "x"] }

RobotAttribs ==
    { NoAttrib,
      [generator |-> "Robot 7.0", generated |-> "2023-01-01T12:00:00.000000",
       rpa |-> "true"],
      [rpa |-> "false"], [rpa |-> "True"], [generator |-> ""],
      [generated |-> "20230101 12:00:00.000"],
      [generated |-> "x", rpa |-> "true"] }

\* kw elements as RF < 4 wrote them, next to the current ones.
LegacyKwAttribs ==
    { NoAttrib, [name |-> "k1", type |-> ""], [type |-> "for", name |-> "x"],
      [type |-> "FOR"], [type |-> "foritem", name |-> "x"],
      [type |-> "ITERATION"], [type |-> "SETUP", name |-> "Open"],
      [type |-> "teardown"], [type |-> "T2"] }

\* The attribute dictionaries an element with this tag may carry.
Attribs(p, tag) ==
    CASE p = "fixture" /\ tag = "kw" ->
            { [name |-> "k1"], [name |-> "k2", library |-> "Lib"],
              [type |-> "SETUP", name |-> "Open", owner |-> "Lib",
               source_name |-> "Open It"],
              [type |-> "teardown", name |-> "Close"], [type |-> "setup"] }
      [] p = "status" /\ tag = "status" -> StatusAttribs
      [] p = "status" /\ tag = "kw" -> { NoAttrib, [type |-> "setup"] }
      [] p = "branch" /\ tag = "branch" -> BranchAttribs
      [] p = "robot" /\ tag = "robot" -> RobotAttribs
      [] p = "legacy" /\ tag = "kw" -> LegacyKwAttribs
      [] p = "wrapper" /\ tag \in {"item", "meta"} -> { NoAttrib, [name |-> "k"] }
      [] p = "var" /\ tag = "kw" ->
            { NoAttrib, [type |-> "SETUP"], [type |-> "teardown"], [type |-> "for"],
              [type |-> "foritem"] }
      [] p = "var" /\ tag = "var" -> { NoAttrib, [name |-> "${x}"] }
      [] OTHER -> { NoAttrib }

\* The texts a close event may carry (elem.text).
Texts(p, tag) ==
    CASE p = "status" /\ tag = "status" -> { None, S("boom") }
      [] p = "wrapper" /\ tag \in LeafTags -> { None, S("a"), S("b") }
      [] p = "var" /\ tag = "var" -> { None, S("a") }
      [] p = "text" /\ tag \in TextTags -> { None, S("a"), S("b") }
      [] OTHER -> { None }

\* The rpa flag the caller may have given the Result before parsing.
PresetRpa(p) == IF p = "robot" THEN {None, B(TRUE), B(FALSE)} ELSE {None}

\* XmlElementHandler(execution_result): the Result, or None.
Seeds == {1, NullRef}

TopOf(st) == st[Len(st)]

Front(seq) == SubSeq(seq, 1, Len(seq) - 1)

Elem(tag, attrib, text) == [tag |-> tag, attrib |-> attrib, text |-> text]

Last(ev, elem, called) == [ev |-> ev, elem |-> elem, called |-> called]

\* XmlElementHandler.__init__
Init ==
    /\ profile \in Profiles
    /\ \E seed \in Seeds : stack = << [handler |-> RootHandlerObj, result |-> seed] >>
    /\ \E rpa \in PresetRpa(profile) : heap = [InitHeap EXCEPT ![1].rpa = rpa]
    /\ open = <<>>
    /\ started = 0
    /\ err = NoError
    /\ last = Last("init", Elem("", NoAttrib, None), FALSE)

\* The handler fed with documents of one vocabulary.
InitOf(p) ==
    /\ profile = p
    /\ \E seed \in Seeds : stack = << [handler |-> RootHandlerObj, result |-> seed] >>
    /\ \E rpa \in PresetRpa(p) : heap = [InitHeap EXCEPT ![1].rpa = rpa]
    /\ open = <<>>
    /\ started = 0
    /\ err = NoError
    /\ last = Last("init", Elem("", NoAttrib, None), FALSE)

Outcome(st, h, exc, called) == [stack |-> st, heap |-> h, exc |-> exc, called |-> called]

\* The stack after the handler's end returned: the frame is gone.
Popped(st, out, called) == Outcome(Front(st), out.heap, out.exc, called)

\* Variant of Pushed: the push sits inside `if result is not None`.
Pushed_OnlyIfCalled(st, handler, out, called) ==
    IF out.exc # NoError THEN Outcome(st, out.heap, out.exc, called)
    ELSE Outcome(IF called THEN Append(st, [handler |-> handler, result |-> out.ref])
                 ELSE st,
                 out.heap, NoError, called)

\* The stack after the handler's start returned: the new frame is pushed.
Pushed(st, handler, out, called) ==
    IF out.exc # NoError THEN Outcome(st, out.heap, out.exc, called)
    ELSE Outcome(Append(st, [handler |-> handler, result |-> out.ref]),
                 out.heap, NoError, called)

\* Variant of Started: under a None result the child lookup is ignored and
\* the parent's handler is pushed again.
Started_NoLookupUnderNone(st, h, elem, look) ==
    IF TopOf(st).result = NullRef
    THEN Outcome(Append(st, TopOf(st)), h, NoError, FALSE)
    ELSE IF look.exc # NoError THEN Outcome(st, h, look.exc, FALSE)
    ELSE Pushed(st, look.handler,
                HandlerStart(look.handler, elem, h, TopOf(st).result), TRUE)

\* XmlElementHandler.start once the child handler has been looked up.
Started(st, h, elem, look) ==
    IF look.exc # NoError THEN Outcome(st, h, look.exc, FALSE)
    ELSE Pushed(st, look.handler,
                IF TopOf(st).result # NullRef
                THEN HandlerStart(look.handler, elem, h, TopOf(st).result)
                ELSE Ret(h, NullRef),
                TopOf(st).result # NullRef)

\* What XmlElementHandler.start(elem) does to the stack and the heap.
StartOutcome(st, h, elem) ==
    Started(st, h, elem, get_child_handler(TopOf(st).handler, elem.tag))

\* What XmlElementHandler.end(elem) does to the stack and the heap.
EndOutcome(st, h, elem) ==
    Popped(st,
           IF TopOf(st).result # NullRef
           THEN HandlerEnd(TopOf(st).handler, elem, h, TopOf(st).result)
           ELSE Ret(h, NullRef),
           TopOf(st).result # NullRef)

\* An open event: XmlElementHandler.start(elem)
XmlStart ==
    /\ err = NoError
    /\ started < MaxElems(profile)
    /\ \E tag \in Alphabet(profile) : \E attrib \in Attribs(profile, tag) :
       \E o \in {StartOutcome(stack, heap, Elem(tag, attrib, None))} :
         /\ stack' = o.stack
         /\ heap' = o.heap
         /\ err' = o.exc
         /\ open' = IF o.exc # NoError THEN open
                    ELSE Append(open, IF o.called
                                      THEN ElemAfterStart(TopOf(o.stack).handler,
                                                          Elem(tag, attrib, None))
                                      ELSE Elem(tag, attrib, None))
         /\ last' = Last("start", Elem(tag, attrib, None), o.called)
    /\ started' = started + 1
    /\ UNCHANGED profile

\* A close event for the innermost open element: XmlElementHandler.end(elem)
XmlEnd ==
    /\ err = NoError
    /\ open # <<>>
    /\ \E text \in Texts(profile, TopOf(open).tag) :
       \E o \in {EndOutcome(stack, heap, [TopOf(open) EXCEPT !.text = text])} :
         /\ stack' = o.stack
         /\ heap' = o.heap
         /\ err' = o.exc
         /\ last' = Last("end", [TopOf(open) EXCEPT !.text = text], o.called)
    /\ open' = Front(open)
    /\ UNCHANGED <<started, profile>>

Next == XmlStart \/ XmlEnd

Spec == Init /\ [][Next]_vars

---------------------------------------------------------------------------
(* Properties of the stack automaton *)

\* The step is an open event / a close event.
IsStart == started' = started + 1
IsEnd == Len(open') = Len(open) - 1

\* The element the step's event carries.
EventElem == last'.elem

Seed(st) == st[1]

\* C1: in a stream that raises no error every open event pushes exactly one
\* stack entry and every close event pops exactly one, so the stack depth is
\* 1 + the number of open elements; the bottom entry is always the seed
\* (root handler, the object given to the constructor) and after the last
\* close the stack is the seed alone.
C1_StackDiscipline ==
    /\ stack[1].handler = RootHandlerObj /\ stack[1].result \in Seeds
    /\ [][ err' = NoError =>
            /\ IsStart => Front(stack') = stack
            /\ IsEnd => stack' = Front(stack)
            /\ Len(stack') = 1 + Len(open')
            /\ Seed(stack') = Seed(stack)
            /\ (open' = <<>> => stack' = << Seed(stack) >>) ]_vars

\* A document of at least two elements has been closed completely.
C1_Witness ==
    /\ err = NoError /\ last.ev = "end" /\ open = <<>> /\ started >= 2
    /\ Len(stack) = 1

\* The handlers whose get_child_handler is ElementHandler's for this tag.
UsesDefaultLookup(handler, tag) ==
    /\ handler.cls \notin {"RootHandler", "ErrorsHandler", "StatisticsHandler"}
    /\ ~(handler.cls = "SuiteHandler" /\ tag = "status")

\* C2: an open event for a tag that is not in the permitted-children set of
\* the handler on top of the stack (a handler using the default lookup)
\* raises the incompatible-child error naming the child tag and the parent
\* handler's tag, before any start operation: nothing is pushed, the tree is
\* unchanged.  The handler's tag is the tag of the innermost open element,
\* except for the handler of the children of errors, whose tag is msg.
C2_IncompatibleChild ==
    [][ ( /\ IsStart
          /\ UsesDefaultLookup(TopOf(stack).handler, EventElem.tag)
          /\ EventElem.tag \notin ChildrenOf(TopOf(stack).handler) )
        => /\ err' = [type |-> "DataError", msg |-> "Incompatible child element",
                      child |-> EventElem.tag,
                      parent |-> TagOf(TopOf(stack).handler)]
           /\ TopOf(stack).handler.cls # "ErrorMessageHandler"
                => err'.parent = TopOf(open).tag
           /\ ~last'.called
           /\ stack' = stack
           /\ heap' = heap ]_vars

\* A tag was rejected two levels below the root, with the tree built so far.
C2_Witness ==
    /\ err.type = "DataError" /\ err.msg = "Incompatible child element"
    /\ Len(stack) >= 3 /\ TopOf(stack).result > 1
    /\ last.ev = "start" /\ ~last.called

KwUnderStatistics ==
    IsStart /\ EventElem.tag = "kw" /\ open # <<>> /\ TopOf(open).tag = "statistics"

\* C4 as stated: a kw open event while a statistics element is the innermost
\* open element raises the incompatible-child error naming kw and statistics.
C4_AsStated ==
    [][ KwUnderStatistics =>
          err' = [type |-> "DataError", msg |-> "Incompatible child element",
                  child |-> "kw", parent |-> "statistics"] ]_vars

\* C4 amended: a kw open event while a statistics element is the innermost
\* open element raises no error when that element is handled by the
\* statistics handler: the handler answers the lookup with itself, it is
\* pushed with the node it was started with, and the tree is unchanged.  The
\* only other handler a statistics element can get is the message handler of
\* errors, under which the kw raises the error naming kw and msg.
C4_StatisticsAcceptsKw ==
    [][ KwUnderStatistics =>
          IF TopOf(stack).handler.cls = "StatisticsHandler"
          THEN /\ err' = NoError
               /\ stack' = Append(stack, TopOf(stack))
               /\ heap' = heap
          ELSE /\ TopOf(stack).handler.cls = "ErrorMessageHandler"
               /\ err' = IncompatibleChild("kw", "msg")
               /\ stack' = stack
               /\ heap' = heap ]_vars

\* A kw element is open directly under statistics, next to a parsed robot
\* element.
C4_Witness ==
    /\ err = NoError /\ Len(open) >= 3
    /\ open[2].tag = "statistics" /\ open[3].tag = "kw"
    /\ last.ev = "start" /\ last.called

AllNullAbove(st) ==
    \A i, j \in 1..Len(st) : (i < j /\ st[i].result = NullRef) => st[j].result = NullRef

\* C5: under a null node an open event still does the child lookup (and
\* fails on a tag that is not permitted) but calls no start operation and
\* pushes a null node; a close event that pops a null node calls no end
\* operation.  So every entry above a null entry is null and the tree does
\* not change while a null entry is on top.
C5_NullSuppresses ==
    /\ []AllNullAbove(stack)
    /\ [][ TopOf(stack).result = NullRef =>
            /\ ~last'.called
            /\ heap' = heap
            /\ IsStart =>
                 LET look == get_child_handler(TopOf(stack).handler, EventElem.tag)
                 IN  IF EventElem.tag \in ChildrenOf(TopOf(stack).handler)
                        \/ TopOf(stack).handler.cls \in {"StatisticsHandler", "ErrorsHandler"}
                     THEN /\ err' = NoError
                          /\ stack' = Append(stack, [handler |-> look.handler,
                                                     result |-> NullRef])
                     ELSE err'.type = "DataError" /\ stack' = stack
            /\ IsEnd => err' = NoError /\ stack' = Front(stack) ]_vars

\* Null entries are stacked three deep and one of them has been popped.
C5_Witness ==
    /\ err = NoError /\ Len(stack) >= 3 /\ TopOf(stack).result = NullRef
    /\ last.ev = "end" /\ ~last.called

---------------------------------------------------------------------------
(* Suite-level keywords: implicit and explicit setup / teardown *)

\* The node on top of the stack, which the step's event acts on.
Node == TopOf(stack).result

\* The step opens a kw element without a (non-empty) type attribute directly
\* under a suite.
SuiteLevelKw ==
    /\ IsStart /\ EventElem.tag = "kw" /\ ~Truthy(Get(EventElem, "type"))
    /\ TopOf(stack).handler.cls = "SuiteHandler"
    /\ Node # NullRef /\ heap[Node].kind = "Suite"

\* The fixture the suite's recorded tests and child suites select.
Target(suite) == IF suite.tests = <<>> /\ suite.suites = <<>> THEN "setup" ELSE "teardown"

\* The body of a fixture that may not exist yet.
BodyOf(h, ref) == IF ref = NullRef THEN <<>> ELSE h[ref].body

\* The objects that were on the heap before the step keep their body,
\* except the one named.
OtherBodiesUnchanged(except) ==
    \A i \in 1..Len(heap) :
        (i # except /\ HasAttr(heap[i], "body")) => heap'[i].body = heap[i].body

\* C6: a kw open event without type under a suite appends the new keyword to
\* the body of the suite's setup if the suite has recorded no tests and no
\* child suites before the event, and to the body of its teardown otherwise;
\* the keyword is added to no other body.
C6_SuiteLevelKwTarget ==
    [][ SuiteLevelKw =>
          /\ err' = NoError
          /\ heap'[Node][Target(heap[Node])] # NullRef
          /\ heap'[Len(heap')].kind = "Keyword"
          /\ heap'[Len(heap')].type = S("KEYWORD")
          /\ heap'[Len(heap')].name = GetD(EventElem, "name", S(""))
          /\ heap'[Len(heap')].body = <<>>
          /\ TopOf(stack').result = Len(heap')
          /\ Len(heap') > Len(heap)
          /\ heap'[heap'[Node][Target(heap[Node])]].body
               = Append(BodyOf(heap, heap[Node][Target(heap[Node])]), Len(heap'))
          /\ OtherBodiesUnchanged(heap[Node][Target(heap[Node])])
          /\ \A i \in 1..(Len(heap') - 1) :
               i # heap'[Node][Target(heap[Node])] =>
                 (HasAttr(heap'[i], "body") => \A k \in 1..Len(heap'[i].body) :
                                                  heap'[i].body[k] # Len(heap'))
          /\ heap'[Node].tests = heap[Node].tests
          /\ heap'[Node].suites = heap[Node].suites ]_vars

\* A suite-level keyword has just gone to the teardown of the root suite
\* (a test or child suite was recorded before it) after an earlier one went
\* to its setup.
C6_Witness ==
    /\ err = NoError /\ last.ev = "start" /\ last.elem.tag = "kw"
    /\ "type" \notin DOMAIN last.elem.attrib
    /\ heap[2].setup # NullRef /\ heap[2].teardown # NullRef
    /\ Len(heap[heap[2].setup].body) = 1
    /\ heap[heap[2].teardown].body = << TopOf(stack).result >>

\* C7: the fixture a suite-level kw without type is routed to is configured
\* with the name "Implicit setup" / "Implicit teardown" and status PASS only
\* if it does not exist yet (is falsy); a fixture that exists keeps its name
\* and status.  Either way the keyword goes to the end of the fixture's body.
C7_ImplicitFixture ==
    [][ SuiteLevelKw =>
          IF heap[Node][Target(heap[Node])] = NullRef
             \/ heap[heap[Node][Target(heap[Node])]].name = None
          THEN /\ heap'[heap'[Node][Target(heap[Node])]].name
                    = S("Implicit " \o Target(heap[Node]))
               /\ heap'[heap'[Node][Target(heap[Node])]].status = PASS
               /\ heap'[heap'[Node][Target(heap[Node])]].body
                    = BodyOf(heap, heap[Node][Target(heap[Node])]) \o << Len(heap') >>
          ELSE /\ heap'[Node][Target(heap[Node])] = heap[Node][Target(heap[Node])]
               /\ heap'[heap[Node][Target(heap[Node])]]
                    = [heap[heap[Node][Target(heap[Node])]] EXCEPT
                         !.body = heap[heap[Node][Target(heap[Node])]].body
                                    \o << Len(heap') >>] ]_vars

\* Two suite-level keywords, k1 then k2, sit in this order in the body of
\* one placeholder: the first created it, the second found it and left its
\* name and status alone.
C7_Witness ==
    /\ err = NoError /\ last.ev = "start" /\ Len(open) = 2
    /\ heap[2].setup # NullRef
    /\ heap[heap[2].setup].name = S("Implicit setup")
    /\ heap[heap[2].setup].status = PASS
    /\ Len(heap[heap[2].setup].body) = 2
    /\ heap[heap[heap[2].setup].body[1]].name = S("k1")
    /\ heap[heap[heap[2].setup].body[2]].name = S("k2")

\* The step opens a kw element whose type attribute names this fixture,
\* directly under a suite that already has the fixture.
ExplicitFixtureTag(which) ==
    /\ IsStart /\ EventElem.tag = "kw" /\ Truthy(Get(EventElem, "type"))
    /\ Lower(EventElem.attrib["type"]) = which
    /\ TopOf(stack).handler.cls = "SuiteHandler"
    /\ Node # NullRef /\ heap[Node].kind = "Suite"
    /\ heap[Node][which] # NullRef

\* seq is an initial part of longer.
IsPrefix(seq, longer) ==
    Len(seq) <= Len(longer) /\ SubSeq(longer, 1, Len(seq)) = seq

\* C8: a kw tag with type setup (teardown) opened under a suite that already
\* has a setup (teardown), such as the placeholder suite-level keywords
\* created, leaves that object in place and overwrites its name, owner and
\* source_name with those of the tag; its body and everything else is kept.
\* Bodies only ever grow at the end, so the keywords appended before stay
\* first, in order, and the children of the explicit tag follow them.
C8_ExplicitKeepsBody ==
    /\ [][ \A which \in {"setup", "teardown"} :
             ExplicitFixtureTag(which) =>
               /\ err' = NoError
               /\ Len(heap') = Len(heap)
               /\ TopOf(stack').result = heap[Node][which]
               /\ heap'[Node] = heap[Node]
               /\ heap'[heap[Node][which]]
                    = [heap[heap[Node][which]] EXCEPT
                         !.name = GetD(EventElem, "name", S("")),
                         !.owner = Or(Get(EventElem, "owner"), Get(EventElem, "library")),
                         !.source_name = Or(Get(EventElem, "source_name"),
                                            Get(EventElem, "sourcename"))]
               /\ \A i \in 1..Len(heap) :
                    i # heap[Node][which] => heap'[i] = heap[i] ]_vars
    /\ [][ \A i \in 1..Len(heap) :
             HasAttr(heap[i], "body") => IsPrefix(heap[i].body, heap'[i].body) ]_vars

\* The placeholder setup that received k1 has been overwritten by the
\* explicit tag "Open" and then received the tag's child k2 after k1.
C8_Witness ==
    /\ err = NoError /\ Len(open) = 3
    /\ heap[2].setup # NullRef
    /\ heap[heap[2].setup].name = S("Open")
    /\ heap[heap[2].setup].owner = S("Lib")
    /\ heap[heap[2].setup].source_name = S("Open It")
    /\ heap[heap[2].setup].status = PASS
    /\ Len(heap[heap[2].setup].body) = 2
    /\ heap[heap[heap[2].setup].body[1]].name = S("k1")
    /\ heap[heap[heap[2].setup].body[2]].name = S("k2")
    /\ TopOf(stack).result = heap[heap[2].setup].body[2]

---------------------------------------------------------------------------
(* The status element *)

\* The step closes a status element that the status handler handles (a
\* status element below statistics or errors is handled by their handlers).
StatusClose ==
    /\ IsEnd /\ EventElem.tag = "status"
    /\ TopOf(stack).handler.cls = "StatusHandler"
    /\ Node # NullRef

\* C9: closing a status tag whose parent is a suite does not assign the
\* suite's status, whatever the status attribute is, and still assigns the
\* timing fields and, for non-empty text, the message; closing a status tag
\* under any other node sets that node's status to the status attribute, or
\* to FAIL when the attribute is absent.
C9_SuiteStatusKept ==
    [][ StatusClose =>
          /\ (heap[Node].kind = "Suite") = ~TopOf(stack).handler.set_status
          /\ heap[Node].kind = "Suite" =>
               /\ heap'[Node].status = heap[Node].status
               /\ err' = NoError =>
                    /\ heap'[Node].start_time
                         = IF Has(EventElem, "elapsed") THEN Get(EventElem, "start")
                           ELSE _legacy_timestamp(EventElem, "starttime").val
                    /\ Has(EventElem, "elapsed") =>
                         heap'[Node].elapsed_time
                           = ParseFloat(EventElem.attrib["elapsed"]).val
                    /\ ~Has(EventElem, "elapsed") =>
                         heap'[Node].end_time
                           = _legacy_timestamp(EventElem, "endtime").val
                    /\ heap'[Node].message
                         = IF Truthy(EventElem.text) THEN EventElem.text
                           ELSE heap[Node].message
          /\ heap[Node].kind # "Suite" =>
               heap'[Node].status = GetD(EventElem, "status", FAIL) ]_vars

\* The status tag of a test set the test's status to SKIP; the status tag
\* of the root suite, closed afterwards with status PASS and the text
\* "boom", set the suite's timing and message and left its status alone.
C9_Witness ==
    /\ err = NoError /\ last.ev = "end" /\ last.elem.tag = "status"
    /\ Len(open) = 1
    /\ Get(last.elem, "status") = S("PASS")
    /\ heap[2].status = None
    /\ heap[2].message = S("boom")
    /\ heap[2].elapsed_time = F(1500000)
    /\ heap[2].start_time = S("2023-01-01T12:00:00.000000")
    /\ \E i \in 1..Len(heap) : heap[i].kind = "Test" /\ heap[i].status = S("SKIP")

\* C10: on closing a status tag with an elapsed attribute, elapsed_time and
\* start_time are assigned from elapsed and start, end_time is not assigned
\* and the legacy starttime / endtime attributes are ignored; without an
\* elapsed attribute start_time and end_time are assigned from the legacy
\* parser applied to starttime and endtime, and elapsed_time is not assigned.
C10_TimingExclusive ==
    [][ StatusClose =>
          IF Has(EventElem, "elapsed")
          THEN /\ heap'[Node].end_time = heap[Node].end_time
               /\ err' = NoError =>
                    /\ heap'[Node].elapsed_time
                         = ParseFloat(EventElem.attrib["elapsed"]).val
                    /\ heap'[Node].start_time = Get(EventElem, "start")
          ELSE /\ heap'[Node].elapsed_time = heap[Node].elapsed_time
               /\ err' = NoError =>
                    /\ heap'[Node].start_time
                         = _legacy_timestamp(EventElem, "starttime").val
                    /\ heap'[Node].end_time
                         = _legacy_timestamp(EventElem, "endtime").val ]_vars

\* The root suite first got a legacy status tag and then one carrying both
\* encodings: elapsed and start were taken from the new attributes and the
\* end time is still the one the legacy tag gave.
C10_Witness ==
    /\ err = NoError /\ last.ev = "end" /\ last.elem.tag = "status"
    /\ Has(last.elem, "elapsed") /\ Has(last.elem, "starttime")
    /\ Has(last.elem, "endtime")
    /\ heap[2].elapsed_time = F(2000000)
    /\ heap[2].start_time = S("2023-01-01T12:00:00.000000")
    /\ heap[2].end_time = DateTime(2023, 1, 1, 12, 0, 1, 0)

---------------------------------------------------------------------------
(* Timing as a node shows it *)

\* end - start in microseconds, for two instants of one month.
Between(start, end) ==
    ((((end.day - start.day) * 24 + (end.hour - start.hour)) * 60
      + (end.minute - start.minute)) * 60 + (end.second - start.second)) * 1000000
    + (end.microsecond - start.microsecond)

\* The start time the node shows: a text given as start time is read as
\* ISO 8601.
StartOf(node) ==
    IF IsStr(node.start_time) THEN FromIsoFormat(node.start_time.str).val
    ELSE node.start_time

\* The duration the node shows, in microseconds: the elapsed time if one
\* was given, otherwise end time - start time.
ElapsedOf(node) ==
    IF node.elapsed_time # None THEN node.elapsed_time.float_us
    ELSE Between(node.start_time, node.end_time)

\* No status tag has given the node a time yet.
FreshTiming(node) ==
    node.start_time = None /\ node.end_time = None /\ node.elapsed_time = None

\* The two encodings of the example: 2023-01-01 12:00:00 for 1.5 seconds.
LegacyExample ==
    [starttime |-> "20230101 12:00:00.000", endtime |-> "20230101 12:00:01.500"]
CurrentExample ==
    [start |-> "2023-01-01T12:00:00.000000", elapsed |-> "1.5"]

\* The attributes of the element that concern timing.
TimingOf(attrib) ==
    [k \in DOMAIN attrib \cap {"start", "elapsed", "starttime", "endtime"} |-> attrib[k]]

\* C11: a status tag with starttime "20230101 12:00:00.000" and endtime
\* "20230101 12:00:01.500" leaves its node with start time 2023-01-01
\* 12:00:00 and a duration of 1.5 seconds, the same as a status tag with
\* start "2023-01-01T12:00:00.000000" and elapsed "1.5".  In general the
\* legacy pair shows the parsed start and the duration end - start, and the
\* current pair shows the start read as ISO 8601 and the duration elapsed.
C11_LegacyEquivalence ==
    [][ (StatusClose /\ err' = NoError /\ FreshTiming(heap[Node])) =>
          /\ TimingOf(EventElem.attrib) \in {LegacyExample, CurrentExample} =>
               /\ StartOf(heap'[Node]) = DateTime(2023, 1, 1, 12, 0, 0, 0)
               /\ ElapsedOf(heap'[Node]) = 1500000
          /\ (~Has(EventElem, "elapsed")
              /\ _legacy_timestamp(EventElem, "starttime").val # None
              /\ _legacy_timestamp(EventElem, "endtime").val # None) =>
               /\ StartOf(heap'[Node]) = _legacy_timestamp(EventElem, "starttime").val
               /\ ElapsedOf(heap'[Node])
                    = Between(_legacy_timestamp(EventElem, "starttime").val,
                              _legacy_timestamp(EventElem, "endtime").val)
          /\ (Has(EventElem, "elapsed") /\ Has(EventElem, "start")) =>
               /\ StartOf(heap'[Node]) = FromIsoFormat(EventElem.attrib["start"]).val
               /\ ElapsedOf(heap'[Node])
                    = ParseFloat(EventElem.attrib["elapsed"]).val.float_us ]_vars

\* The root suite got the legacy encoding of the example and a test the
\* current one: both show the same start and the same 1.5 seconds.
C11_Witness ==
    /\ err = NoError /\ last.ev = "end" /\ last.elem.tag = "status"
    /\ TimingOf(last.elem.attrib) = CurrentExample
    /\ heap[2].end_time = DateTime(2023, 1, 1, 12, 0, 1, 500000)
    /\ heap[2].elapsed_time = None
    /\ \E i \in 1..Len(heap) :
         /\ heap[i].kind = "Test" /\ heap[i].elapsed_time = F(1500000)
         /\ StartOf(heap[i]) = StartOf(heap[2])
         /\ ElapsedOf(heap[i]) = ElapsedOf(heap[2])

---------------------------------------------------------------------------
(* Legacy attribute names *)

\* The step opens a branch element that carries variable and no assign,
\* under a node.
BranchWithVariable ==
    /\ IsStart /\ EventElem.tag = "branch"
    /\ Has(EventElem, "variable") /\ ~Has(EventElem, "assign")
    /\ TopOf(stack).handler.cls \in {"IfHandler", "TryHandler"}
    /\ Node # NullRef

\* The same attributes with assign in the place of variable.
WithAssign(attrib) ==
    [k \in (DOMAIN attrib \ {"variable"}) \cup {"assign"} |->
        IF k = "assign" THEN attrib.variable ELSE attrib[k]]

\* C12: a branch open event carrying variable="x" and no assign produces the
\* Branch node, and leaves the stack, the tree and the open element, as the
\* same event carrying assign="x" produces and leaves them; the Branch gets
\* the value as its assign and no variable key reaches its construction.
C12_VariableIsAssign ==
    [][ BranchWithVariable =>
          /\ stack' = StartOutcome(stack, heap,
                                   Elem("branch", WithAssign(EventElem.attrib), None)).stack
          /\ heap' = StartOutcome(stack, heap,
                                  Elem("branch", WithAssign(EventElem.attrib), None)).heap
          /\ err' = StartOutcome(stack, heap,
                                 Elem("branch", WithAssign(EventElem.attrib), None)).exc
          /\ err' = NoError
          /\ TopOf(open').attrib = WithAssign(EventElem.attrib)
          /\ heap'[TopOf(stack').result].kind = "Branch"
          /\ heap'[TopOf(stack').result].assign = S(EventElem.attrib.variable)
          /\ ~HasAttr(heap'[TopOf(stack').result], "variable") ]_vars

\* A try block has two EXCEPT branches that are equal as nodes: the first
\* came from assign="x", the second, just opened, from variable="x".
C12_Witness ==
    /\ err = NoError /\ last.ev = "start" /\ last.elem.tag = "branch"
    /\ Has(last.elem, "variable") /\ Has(last.elem, "pattern_type")
    /\ Len(stack) = 5 /\ stack[4].result # NullRef
    /\ Len(heap[stack[4].result].body) = 2
    /\ heap[heap[stack[4].result].body[1]] = heap[heap[stack[4].result].body[2]]
    /\ heap[heap[stack[4].result].body[2]].assign = S("x")
    /\ heap[heap[stack[4].result].body[2]].type = S("EXCEPT")

---------------------------------------------------------------------------
(* Defaults of the robot element *)

\* The step opens the robot element on a Result: its start handler is called.
RobotOpen ==
    /\ IsStart /\ EventElem.tag = "robot" /\ last'.called
    /\ TopOf(stack).handler.cls = "RootHandler" /\ Node # NullRef

\* C13 as stated: without a generator attribute the generator becomes
\* "unknown"; without an rpa attribute the rpa flag is false afterwards, and
\* with one it is true only when the attribute is exactly "true"; the
\* absence of either raises nothing.
C13_AsStated ==
    [][ (RobotOpen /\ ~Has(EventElem, "generated")) =>
          /\ err' = NoError
          /\ ~Has(EventElem, "generator") => heap'[Node].generator = S("unknown")
          /\ ~Has(EventElem, "rpa") => heap'[Node].rpa = B(FALSE)
          /\ (Has(EventElem, "rpa") /\ heap'[Node].rpa = B(TRUE)) =>
               EventElem.attrib.rpa = "true" ]_vars

\* C13 amended: opening the robot element sets the generator to the
\* attribute, or to "unknown" without one.  If the Result's rpa flag has not
\* been set before (is None) it becomes true when the rpa attribute is
\* exactly "true" and false otherwise, also without the attribute; a flag
\* that has been set is left as it is, whatever the attribute says.  Only an
\* unreadable generated attribute makes the event raise.
C13_RobotDefaults ==
    [][ RobotOpen =>
          /\ heap'[Node].generator = GetD(EventElem, "generator", S("unknown"))
          /\ (heap[Node].rpa = None /\ err' = NoError) =>
               heap'[Node].rpa
                 = B(Has(EventElem, "rpa") /\ EventElem.attrib.rpa = "true")
          /\ heap[Node].rpa # None => heap'[Node].rpa = heap[Node].rpa
          /\ err' # NoError =>
               /\ Has(EventElem, "generated") /\ err'.type = "ValueError"
               /\ heap'[Node].rpa = heap[Node].rpa
          /\ ~Has(EventElem, "generated") => err' = NoError ]_vars

\* The robot element without attributes has been opened on a Result whose
\* rpa flag was not set: generator "unknown", rpa false, no time, and the
\* root suite opened below it took the flag over.
C13_Witness ==
    /\ err = NoError /\ Len(open) = 2
    /\ open[1].tag = "robot" /\ open[1].attrib = NoAttrib
    /\ heap[1].generator = S("unknown")
    /\ heap[1].rpa = B(FALSE)
    /\ heap[1].generation_time = None
    /\ heap[2].rpa = B(FALSE)

---------------------------------------------------------------------------
(* The generic object contract: config, from_dict, to_dict, copy and        *)
(* deepcopy called on model objects directly.  The objects live on `heap`,  *)
(* `err` is the exception the last call raised and `last` records the call. *)
(* Here a tag collection is an object of its own, referred to by the        *)
(* objects whose tags it is, so that two objects can hold the very same     *)
(* collection.                                                              *)

MaxCalls == 2

Ref(id) == [ref |-> id]
IsRef(v) == "ref" \in DOMAIN v

\* ModelObject.KEYWORD_TYPES, a class attribute every object has
ClassAttrs ==
    [KEYWORD_TYPES |-> T(<<S("KEYWORD"), S("SETUP"), S("TEARDOWN")>>)]

\* Tags(iterable): the collection built by adding the items one by one
RECURSIVE TagsOf(_)
TagsOf(items) ==
    IF items = <<>> THEN <<>>
    ELSE TagsAdd(TagsOf(Front(items)), items[Len(items)])

NewTags(items) == [kind |-> "Tags", items |-> TagsOf(items)]

\* The strings of a list or tuple of str values
Strs(seq) == [i \in 1..Len(seq) |-> seq[i].str]

\* cls(...): the object is put on the heap, followed by its tag collection
\* if its kind has one.
Construct(h, node) ==
    IF HasAttr(node, "tags")
    THEN Ret(h \o << [node EXCEPT !.tags = Ref(Len(h) + 2)] @@ ClassAttrs,
                     NewTags(node.tags) >>, Len(h) + 1)
    ELSE Ret(Append(h, node @@ ClassAttrs), Len(h) + 1)

\* The class of an object: its kind and its fixed discriminant.
ClassOf(node) == [kind |-> node.kind, type |-> node.type]

\* cls(): the default instance of a class
DefaultInstance(cls) ==
    CASE cls.kind = "Test" -> NewTest(S(""), None)
      [] cls.kind = "Keyword" -> NewKeyword(S(""), None, None, cls.type)
      [] cls.kind = "For" -> NewFor(S("IN"), None, None, None)
      [] cls.kind = "Var" -> NewVar(S(""), None, None)

\* The tags setter run by setattr(obj, "tags", value): Tags(value), a new
\* collection.  The collections are put on the heap before config runs and
\* the values replaced by references to them; one that config does not get
\* to assign is referred to by nothing.
RECURSIVE Setters(_, _, _)
Setters(h, node, attributes) ==
    IF attributes = <<>> THEN [heap |-> h, attributes |-> <<>>]
    ELSE IF /\ attributes[1][1] = "tags" /\ HasAttr(node, "tags")
            /\ (IsList(attributes[1][2]) \/ IsTuple(attributes[1][2]))
    THEN LET items == IF IsList(attributes[1][2]) THEN attributes[1][2].list
                      ELSE attributes[1][2].tuple
             rest == Setters(Append(h, NewTags(Strs(items))), node,
                             Tail(attributes))
         IN  [heap |-> rest.heap,
              attributes |-> << <<"tags", Ref(Len(h) + 1)>> >> \o rest.attributes]
    ELSE LET rest == Setters(h, node, Tail(attributes))
         IN  [heap |-> rest.heap,
              attributes |-> << attributes[1] >> \o rest.attributes]

\* obj.config(**attributes) with the setters of this specification
ConfigWith(ref, set) == Config(set.heap, ref, set.attributes)

ConfigObj(h, ref, attributes) ==
    ConfigWith(ref, Setters(h, h[ref], attributes))

\* The error from_dict raises for the error config raised.
FromDictError(cls, e) ==
    [type |-> "DataError", msg |-> "Creating object from dictionary failed",
     cls |-> cls, cause |-> e.type, attr |-> e.attr]

\* Variant: the error of config is not caught.
FromDictAfter_Uncaught(h, cls, out) ==
    IF out.exc = NoError THEN out ELSE Raise(h, out.exc)

\* ModelObject.from_dict: cls().config(**data); the AttributeError or
\* TypeError of config becomes a DataError and no object is returned.
FromDictAfter(h, cls, out) ==
    IF out.exc = NoError THEN out
    ELSE IF out.exc.type \in {"AttributeError", "TypeError"}
    THEN Raise(h, FromDictError(cls, out.exc))
    ELSE Raise(h, out.exc)

FromDictOn(h, cls, data, new) ==
    FromDictAfter(h, cls, ConfigObj(new.heap, new.ref, data))

from_dict(h, cls, data) ==
    FromDictOn(h, cls, data, Construct(h, DefaultInstance(cls)))

\* The attributes to_dict emits, in the order it emits them.
DictOrder ==
    << "type", "name", "lineno", "owner", "source_name", "flavor", "start",
       "mode", "fill", "scope", "separator", "doc", "args", "assign",
       "values", "value", "tags", "timeout", "status", "message",
       "start_time", "end_time", "elapsed_time" >>

\* A value as the dictionary holds it: tuples and tag collections are lists.
DictValue(h, v) ==
    IF IsTuple(v) THEN L(v.tuple)
    ELSE IF IsRef(v)
    THEN L([i \in 1..Len(h[v.ref].items) |-> S(h[v.ref].items[i])])
    ELSE v

KeysOf(node) == SelectSeq(DictOrder, LAMBDA k : k \in DOMAIN node)

DictOf(h, node, keys) ==
    [i \in 1..Len(keys) |-> <<keys[i], DictValue(h, node[keys[i]])>>]

\* obj.to_dict() for an object without children
to_dict(h, ref) == DictOf(h, h[ref], KeysOf(h[ref]))

\* copy.copy(obj): a new object with the same attribute values, the
\* references included.
ShallowCopy(h, ref) == Ret(Append(h, h[ref]), Len(h) + 1)

\* Variant: the duplicate refers to the original's tag collection.
DeepCopy_Shallow(h, ref) == Ret(Append(h, h[ref]), Len(h) + 1)

\* copy.deepcopy(obj): a new object whose tag collection is a new one too.
DeepCopy(h, ref) ==
    IF HasAttr(h[ref], "tags")
    THEN Ret(h \o << [h[ref] EXCEPT !.tags = Ref(Len(h) + 2)],
                     h[h[ref].tags.ref] >>, Len(h) + 1)
    ELSE Ret(Append(h, h[ref]), Len(h) + 1)

\* Variant: the attributes are set on the original.
copy_ConfigSelf(h, ref, attributes) == ConfigObj(h, ref, attributes)

\* ModelObject.copy
copy(h, ref, attributes) ==
    ConfigObj(ShallowCopy(h, ref).heap, ShallowCopy(h, ref).ref, attributes)

\* ModelObject.deepcopy
deepcopy(h, ref, attributes) ==
    ConfigObj(DeepCopy(h, ref).heap, DeepCopy(h, ref).ref, attributes)

\* The objects the calls are made on at first.
ObjSeeds ==
    { [NewTest(S("test"), None) EXCEPT !.tags = <<"t1", "t2">>],
      [NewKeyword(S("kw"), None, None, S("KEYWORD")) EXCEPT
          !.args = T(<<S("a")>>)],
      NewKeyword(None, None, None, S("SETUP")),
      NewFor(S("IN"), None, None, None),
      NewVar(S("x"), None, None) }

Classes == { ClassOf(node) : node \in ObjSeeds }

\* The keyword arguments and dictionaries given to the calls.
ConfigInputs ==
    { <<>>,
      << <<"name", S("New")>> >>,
      << <<"name", S("New")>>, <<"doc", S("New")>>, <<"tags", L(<<S("t3")>>)>> >>,
      << <<"type", S("KEYWORD")>> >>,
      << <<"type", S("KEYWORD")>>, <<"name", S("New")>> >>,
      << <<"type", S("FOR")>> >>,
      << <<"args", L(<<S("a"), S("b")>>)>> >>,
      << <<"args", S("42")>> >>,
      << <<"doc", S("New")>>, <<"args", None>>, <<"name", S("New")>> >>,
      << <<"KEYWORD_TYPES", L(<<S("KEYWORD"), S("SETUP"), S("TEARDOWN")>>)>> >>,
      << <<"KEYWORD_TYPES", L(<<>>)>> >>,
      << <<"unknown", S("x")>> >> }

Call(ev, self, attributes, ret) ==
    [ev |-> ev, self |-> self, attributes |-> attributes, ret |-> ret]

Objects(h) == { i \in 1..Len(h) : h[i].kind # "Tags" }

ObjInit ==
    /\ profile = "objects"
    /\ stack = <<>>
    /\ open = <<>>
    /\ started = 0
    /\ err = NoError
    /\ \E node \in ObjSeeds : heap = Construct(<<>>, node).heap
    /\ last = Call("init", NullRef, <<>>, NullRef)

\* The call returned or raised: out is its outcome.
Called(ev, self, attributes, out) ==
    /\ heap' = out.heap
    /\ err' = out.exc
    /\ last' = Call(ev, self, attributes, out.ref)
    /\ started' = started + 1
    /\ UNCHANGED <<stack, open, profile>>

CallConfig ==
    /\ started < MaxCalls
    /\ \E self \in Objects(heap) : \E attributes \in ConfigInputs :
         Called("config", self, attributes, ConfigObj(heap, self, attributes))

CallFromDict ==
    /\ started < MaxCalls
    /\ \E cls \in Classes : \E data \in ConfigInputs :
         Called("from_dict", cls, data, from_dict(heap, cls, data))

\* from_dict(obj.to_dict())
CallRoundTrip ==
    /\ started < MaxCalls
    /\ \E self \in Objects(heap) :
         Called("round_trip", self, to_dict(heap, self),
                from_dict(heap, ClassOf(heap[self]), to_dict(heap, self)))

CallCopy ==
    /\ started < MaxCalls
    /\ \E self \in Objects(heap) : \E attributes \in ConfigInputs :
         Called("copy", self, attributes, copy(heap, self, attributes))

CallDeepCopy ==
    /\ started < MaxCalls
    /\ \E self \in Objects(heap) : \E attributes \in ConfigInputs :
         Called("deepcopy", self, attributes, deepcopy(heap, self, attributes))

\* obj.name = value
CallSetName ==
    /\ started < MaxCalls
    /\ \E self \in Objects(heap) :
         Called("setattr", self, << <<"name", S("copy")>> >>,
                SetField(heap, self, "name", S("copy")))

\* The tags given to add and remove, and the list assigned to tags.
TagInputs == {"t0", "t3", "T0"}
RemoveInputs == {"T2", "t0"}
TagLists == { <<"t3", "T0", "t0">> }

\* obj.tags.add(tag)
CallTagsAdd ==
    /\ started < MaxCalls
    /\ \E self \in Objects(heap) : \E tag \in TagInputs :
         /\ HasAttr(heap[self], "tags")
         /\ Called("tags.add", self, << <<"tags", S(tag)>> >>,
                   Ret([heap EXCEPT ![heap[self].tags.ref].items
                                       = TagsAdd(@, tag)], self))

\* obj.tags.remove(tag)
CallTagsRemove ==
    /\ started < MaxCalls
    /\ \E self \in Objects(heap) : \E tag \in RemoveInputs :
         /\ HasAttr(heap[self], "tags")
         /\ Called("tags.remove", self, << <<"tags", S(tag)>> >>,
                   Ret([heap EXCEPT ![heap[self].tags.ref].items
                                       = TagsRemove(@, tag)], self))

\* obj.tags = [...]
CallSetTags ==
    /\ started < MaxCalls
    /\ \E self \in Objects(heap) : \E tags \in TagLists :
         /\ HasAttr(heap[self], "tags")
         /\ Called("tags=", self,
                   << <<"tags", L([i \in 1..Len(tags) |-> S(tags[i])])>> >>,
                   ConfigObj(heap, self,
                     << <<"tags", L([i \in 1..Len(tags) |-> S(tags[i])])>> >>))

ObjNext ==
    \/ CallConfig \/ CallFromDict \/ CallRoundTrip \/ CallCopy
    \/ CallDeepCopy \/ CallSetName \/ CallTagsAdd \/ CallTagsRemove
    \/ CallSetTags

ObjSpec == ObjInit /\ [][ObjNext]_vars

---------------------------------------------------------------------------
(* Properties of the generic object contract *)

\* The step is a call of the named operation.
IsCall(ev) == last'.ev = ev

\* The value config assigns for the value it is given.
AsAssigned(orig, value) ==
    IF IsTuple(orig) /\ ~IsTuple(value) THEN ToTuple(value) ELSE value

\* config gets past this name/value pair on the object: the attribute
\* exists, the value can be coerced if it has to be, and the assignment is
\* accepted or its rejection tolerated.
Passes(node, pair) ==
    /\ HasAttr(node, pair[1])
    /\ (IsTuple(node[pair[1]]) /\ ~IsTuple(pair[2])) => Iterable(pair[2])
    /\ pair[1] \in ReadOnlyAttrs => AsAssigned(node[pair[1]], pair[2]) = node[pair[1]]

\* config reaches the i-th pair: it got past all the pairs before it.
Reaches(node, attributes, i) ==
    \A j \in 1..(i - 1) : Passes(node, attributes[j])

\* The i-th pair is one whose assignment the object rejects.
RejectedAt(node, attributes, i) ==
    /\ Reaches(node, attributes, i)
    /\ HasAttr(node, attributes[i][1])
    /\ attributes[i][1] \in ReadOnlyAttrs
    /\ (IsTuple(node[attributes[i][1]]) /\ ~IsTuple(attributes[i][2]))
         => Iterable(attributes[i][2])

\* C14: when config's assignment of an attribute is rejected because the
\* attribute is read-only, the rejection is tolerated if and only if the
\* value being assigned (after the conversion to a tuple, if any) equals the
\* current value: then the attribute is unchanged and config goes on to the
\* next pair, whose writable attribute it assigns; if the values differ,
\* config raises an AttributeError naming the attribute and assigns nothing
\* more.
C14_ReadOnlyTolerance ==
    [][ IsCall("config") =>
          \A i \in 1..Len(last'.attributes) :
            LET node == heap[last'.self]
                name == last'.attributes[i][1]
                value == last'.attributes[i][2]
            IN  RejectedAt(node, last'.attributes, i) =>
                  /\ heap'[last'.self][name] = node[name]
                  /\ (AsAssigned(node[name], value) = node[name]) =>
                       /\ err' # NoError => err'.attr # name
                       /\ i < Len(last'.attributes) =>
                            LET next == last'.attributes[i + 1]
                            IN  (/\ HasAttr(node, next[1])
                                 /\ next[1] \notin ReadOnlyAttrs
                                 /\ ~IsTuple(node[next[1]])) =>
                                   heap'[last'.self][next[1]] = next[2]
                       /\ i = Len(last'.attributes) =>
                            err' = NoError /\ last'.ret = last'.self
                  /\ (AsAssigned(node[name], value) # node[name]) =>
                       /\ err'.type = "AttributeError" /\ err'.attr = name
                       /\ last'.ret = NullRef
                       /\ \A j \in (i + 1)..Len(last'.attributes) :
                            HasAttr(node, last'.attributes[j][1]) =>
                              heap'[last'.self][last'.attributes[j][1]]
                                = node[last'.attributes[j][1]] ]_vars

\* config(type="KEYWORD", name="New") has returned on a keyword of type
\* KEYWORD: the type is as it was and the name is the new one.
C14_Witness ==
    /\ last.ev = "config"
    /\ last.attributes = << <<"type", S("KEYWORD")>>, <<"name", S("New")>> >>
    /\ err = NoError /\ last.ret = last.self
    /\ heap[last.self].kind = "Keyword"
    /\ heap[last.self].type = S("KEYWORD")
    /\ heap[last.self].name = S("New")

\* C15: config(type="KEYWORD") on a Keyword whose type is "KEYWORD" returns
\* the keyword and changes nothing; config(type="FOR") on such a keyword
\* raises an AttributeError about type and leaves the type "KEYWORD".
C15_KeywordType ==
    [][ ( /\ IsCall("config")
          /\ heap[last'.self].kind = "Keyword"
          /\ heap[last'.self].type = S("KEYWORD") ) =>
          /\ last'.attributes = << <<"type", S("KEYWORD")>> >> =>
               /\ err' = NoError /\ last'.ret = last'.self
               /\ heap' = heap
          /\ last'.attributes = << <<"type", S("FOR")>> >> =>
               /\ err'.type = "AttributeError" /\ err'.attr = "type"
               /\ last'.ret = NullRef
               /\ heap'[last'.self].type = S("KEYWORD")
               /\ heap' = heap ]_vars

\* The second call on the keyword "kw", config(type="FOR"), has failed with
\* an AttributeError; the keyword's type is KEYWORD.
C15_Witness ==
    /\ started = 2
    /\ last.ev = "config" /\ last.attributes = << <<"type", S("FOR")>> >>
    /\ err.type = "AttributeError"
    /\ Len(heap) = 2
    /\ heap[last.self].kind = "Keyword"
    /\ heap[last.self].type = S("KEYWORD")
    /\ heap[last.self].name = S("kw")

\* The elements of an iterable value, in iteration order.
Elements(value) ==
    IF IsList(value) THEN value.list
    ELSE IF IsTuple(value) THEN value.tuple
    ELSE [i \in 1..Len(Chars(value.str)) |-> S(Chars(value.str)[i])]

\* C16: config preserves tuples.  When it reaches a pair whose attribute
\* holds a tuple and whose value is not a tuple, an iterable value is
\* assigned as the tuple of its elements in their order (a rejected
\* assignment leaves the tuple there), and a value that is not iterable
\* makes config raise a TypeError naming the attribute, which keeps its
\* tuple; so after a config call that returned, every attribute that held a
\* tuple holds a tuple.
C16_TuplesPreserved ==
    [][ IsCall("config") =>
          /\ \A i \in 1..Len(last'.attributes) :
               LET node == heap[last'.self]
                   name == last'.attributes[i][1]
                   value == last'.attributes[i][2]
               IN  ( /\ Reaches(node, last'.attributes, i)
                     /\ HasAttr(node, name)
                     /\ IsTuple(node[name]) /\ ~IsTuple(value) ) =>
                     /\ (Iterable(value) /\ name \notin ReadOnlyAttrs) =>
                          heap'[last'.self][name] = T(Elements(value))
                     /\ (Iterable(value) /\ name \in ReadOnlyAttrs) =>
                          heap'[last'.self][name] = node[name]
                     /\ ~Iterable(value) =>
                          /\ err'.type = "TypeError" /\ err'.attr = name
                          /\ last'.ret = NullRef
                          /\ heap'[last'.self][name] = node[name]
          /\ err' = NoError =>
               \A name \in DOMAIN heap[last'.self] \ {"kind", "setup", "teardown"} :
                 IsTuple(heap[last'.self][name]) =>
                   IsTuple(heap'[last'.self][name]) ]_vars

\* config(args="42") has returned on the keyword whose args were ("a",):
\* the args are the tuple of the two characters.
C16_Witness ==
    /\ last.ev = "config" /\ last.attributes = << <<"args", S("42")>> >>
    /\ err = NoError /\ started = 1
    /\ heap[last.self].kind = "Keyword"
    /\ heap[last.self].name = S("kw")
    /\ heap[last.self].args = T(<<S("4"), S("2")>>)

\* The i-th pair of the dictionary is the first that config does not get
\* past on a default instance of the class.
OffendsAt(node, data, i) ==
    Reaches(node, data, i) /\ ~Passes(node, data[i])

\* C17: from_dict with a dictionary holding a key that is not an attribute
\* of the class, a value that cannot be made a tuple for an attribute that
\* holds one, or a different value for a read-only attribute returns no
\* object and raises one DataError, which names the class and the first
\* such attribute; with no such pair it returns a new object.
C17_FromDictError ==
    [][ IsCall("from_dict") =>
          LET node == DefaultInstance(last'.self) @@ ClassAttrs
              data == last'.attributes
          IN  /\ \A i \in 1..Len(data) :
                   OffendsAt(node, data, i) =>
                     /\ err'.type = "DataError"
                     /\ err'.cls = last'.self
                     /\ err'.attr = data[i][1]
                     /\ last'.ret = NullRef
                     /\ heap' = heap
              /\ (\A i \in 1..Len(data) : Passes(node, data[i])) =>
                   /\ err' = NoError
                   /\ last'.ret \notin 1..Len(heap)
                   /\ ClassOf(heap'[last'.ret]) = last'.self ]_vars

\* from_dict for a For with a name and a doc in the dictionary has raised a
\* DataError naming the For class and the attribute name.
C17_Witness ==
    /\ last.ev = "from_dict" /\ last.self.kind = "For"
    /\ Len(last.attributes) = 3
    /\ last.attributes[1] = <<"name", S("New")>>
    /\ err.type = "DataError" /\ err.cls.kind = "For" /\ err.attr = "name"
    /\ err.cause = "AttributeError"
    /\ last.ret = NullRef

KeepsTags(attributes) ==
    \A i \in 1..Len(attributes) : attributes[i][1] # "tags"

\* C19: copy() returns a new object whose tags are the very collection the
\* original has; deepcopy() returns a new object whose tags are a new
\* collection with the same items; and assigning name on one object leaves
\* the name of every other object, its copies and its original included, as
\* it was.
C19_CopySharing ==
    [][ /\ ( /\ IsCall("copy") /\ err' = NoError
             /\ KeepsTags(last'.attributes) ) =>
             /\ last'.ret \notin 1..Len(heap)
             /\ HasAttr(heap[last'.self], "tags") =>
                  /\ heap'[last'.ret].tags = heap'[last'.self].tags
                  /\ heap'[last'.self].tags = heap[last'.self].tags
        /\ ( /\ IsCall("deepcopy") /\ err' = NoError
             /\ KeepsTags(last'.attributes) ) =>
             /\ last'.ret \notin 1..Len(heap)
             /\ HasAttr(heap[last'.self], "tags") =>
                  /\ heap'[last'.ret].tags # heap'[last'.self].tags
                  /\ heap'[last'.ret].tags.ref \notin 1..Len(heap)
                  /\ \A o \in Objects(heap) :
                       HasAttr(heap[o], "tags") =>
                         heap'[o].tags # heap'[last'.ret].tags
                  /\ heap'[heap'[last'.ret].tags.ref]
                       = heap[heap[last'.self].tags.ref]
        /\ (IsCall("setattr") /\ err' = NoError) =>
             /\ heap'[last'.self].name = S("copy")
             /\ \A o \in Objects(heap) \ {last'.self} : heap'[o] = heap[o]
      ]_vars

\* The test has been copied and a tag added through the copy: the
\* original's tags, being the same collection, hold the new tag too.
C19_Witness ==
    /\ started = 2 /\ Len(heap) = 3
    /\ last.ev = "tags.add" /\ last.self = 3
    /\ heap[1].kind = "Test" /\ heap[3].kind = "Test"
    /\ heap[3].tags = heap[1].tags
    /\ heap[heap[1].tags.ref].items = <<"t0", "t1", "t2">>

\* The attributes of an object that hold values.
ValueAttrs(node) == DOMAIN node \ {"kind", "setup", "teardown"}

\* The attribute is one the call overrides.
Overridden(attributes, name) ==
    \E i \in 1..Len(attributes) : attributes[i][1] = name

\* The value the call gives for the attribute.
Override(attributes, name) ==
    attributes[CHOOSE i \in 1..Len(attributes) : attributes[i][1] = name][2]

\* C20: copy(**overrides) and deepcopy(**overrides) that return, return a
\* new object on which each overridden attribute holds the given value (as
\* a tuple where the attribute holds tuples, as a tag collection for tags)
\* and every other attribute equals the original's; and whether the call
\* returns or raises, every object and collection that was there before,
\* the original and the tags the copy shared with it included, is as it
\* was.
C20_CopyOverrides ==
    [][ (IsCall("copy") \/ IsCall("deepcopy")) =>
          /\ \A id \in 1..Len(heap) : heap'[id] = heap[id]
          /\ err' = NoError =>
               /\ last'.ret \notin 1..Len(heap)
               /\ DOMAIN heap'[last'.ret] = DOMAIN heap[last'.self]
               /\ \A name \in ValueAttrs(heap[last'.self]) :
                    DictValue(heap', heap'[last'.ret][name])
                      = IF Overridden(last'.attributes, name)
                        THEN DictValue(heap',
                               AsAssigned(heap[last'.self][name],
                                          Override(last'.attributes, name)))
                        ELSE DictValue(heap, heap[last'.self][name]) ]_vars

\* copy(name="New", doc="New", tags=["t3"]) has returned on the test: the
\* copy has the new name, doc and tags, the original its own.
C20_Witness ==
    /\ last.ev = "copy" /\ err = NoError /\ started = 1
    /\ Len(last.attributes) = 3
    /\ heap[last.self].kind = "Test"
    /\ heap[last.ret].name = S("New") /\ heap[last.ret].doc = S("New")
    /\ heap[heap[last.ret].tags.ref].items = <<"t3">>
    /\ heap[last.self].name = S("test") /\ heap[last.self].doc = S("")
    /\ heap[heap[last.self].tags.ref].items = <<"t1", "t2">>

---------------------------------------------------------------------------
(* Properties of the tag collection *)

\* The tags are in sorted order and no tag is there twice, compared
\* normalized.
SortedTags(items) ==
    \A i, j \in 1..Len(items) : i < j => TagKey(items[i]) < TagKey(items[j])

\* The tag collection of the object the call is made on, before and after.
TagsBefore == heap[heap[last'.self].tags.ref].items
TagsAfter == heap'[heap'[last'.self].tags.ref].items

\* The tag is in the collection, compared normalized.
HasTag(items, t) == \E i \in 1..Len(items) : NormTag(items[i]) = NormTag(t)

\* `sub` holds items of `items` only, in the order they have there.
RECURSIVE IsSubSeq(_, _)
IsSubSeq(sub, items) ==
    IF sub = <<>> THEN TRUE
    ELSE IF items = <<>> THEN FALSE
    ELSE IF sub[1] = items[1] THEN IsSubSeq(Tail(sub), Tail(items))
    ELSE IsSubSeq(sub, Tail(items))

---------------------------------------------------------------------------
(* Setup and teardown of a test or suite, read, configured and reset        *)
(* directly.                                                                *)

MaxFixtureCalls == 4

FixtureOwners ==
    { NewTest(S("test"), None), NewSuite(S("suite"), None, None) }

FixtureAttrs == {"setup", "teardown"}

FixtureConfigs == { << <<"name", S("setup kw")>> >>, << <<"doc", S("New")>> >> }

\* The fixtures on the heap, referred to or not.
Fixtures(h) == { i \in 1..Len(h) : h[i].kind = "Keyword" }

FixInit ==
    /\ profile = "fixtures"
    /\ stack = <<>>
    /\ open = <<>>
    /\ started = 0
    /\ err = NoError
    /\ \E node \in FixtureOwners : heap = <<node>>
    /\ last = Call("init", NullRef, <<>>, NullRef)

\* obj.setup, obj.teardown
ReadFixture ==
    /\ started < MaxFixtureCalls
    /\ \E kw_type \in FixtureAttrs :
         Called("read", 1, << <<kw_type, None>> >>, Fixture(heap, 1, kw_type))

\* obj.setup.config(name=...), also on a fixture read before a reset
ConfigFixture ==
    /\ started < MaxFixtureCalls
    /\ \E self \in Fixtures(heap) : \E attributes \in FixtureConfigs :
         Called("config", self, attributes, Config(heap, self, attributes))

\* obj.setup = None
ResetFixture ==
    /\ started < MaxFixtureCalls
    /\ \E kw_type \in FixtureAttrs :
         Called("reset", 1, << <<kw_type, None>> >>,
                Ret([heap EXCEPT ![1][kw_type] = NullRef], 1))

FixNext == ReadFixture \/ ConfigFixture \/ ResetFixture

FixSpec == FixInit /\ [][FixNext]_vars

\* C22: reading setup or teardown never yields None but a Keyword.  Read
\* before it was ever read or after a reset it is a new Keyword with name
\* None, which is falsy; otherwise the read yields the object the last read
\* yielded and changes nothing, so reading alone never makes a falsy
\* fixture truthy.  config(name=...) on the fixture leaves it a Keyword and
\* makes it truthy, and assigning None makes the next read a first read.
C22_Fixtures ==
    [][ /\ IsCall("read") =>
             LET kw_type == last'.attributes[1][1]
             IN  /\ err' = NoError /\ last'.ret # NullRef
                 /\ heap'[last'.ret].kind = "Keyword"
                 /\ heap'[1][kw_type] = last'.ret
                 /\ heap[1][kw_type] = NullRef =>
                      /\ last'.ret \notin 1..Len(heap)
                      /\ heap'[last'.ret].name = None
                      /\ ~Bool(heap'[last'.ret])
                 /\ heap[1][kw_type] # NullRef =>
                      /\ last'.ret = heap[1][kw_type]
                      /\ heap' = heap
                 /\ Bool(heap'[last'.ret]) =>
                      /\ heap[1][kw_type] # NullRef
                      /\ Bool(heap[heap[1][kw_type]])
        /\ (IsCall("config") /\ last'.attributes[1][1] = "name") =>
             /\ err' = NoError /\ last'.ret = last'.self
             /\ heap'[last'.self].kind = "Keyword"
             /\ heap'[last'.self].type = heap[last'.self].type
             /\ Bool(heap'[last'.self])
        /\ IsCall("reset") =>
             /\ heap'[1][last'.attributes[1][1]] = NullRef
             /\ \A id \in Fixtures(heap) : heap'[id] = heap[id]
      ]_vars

\* The test's setup has been read, given a name, reset and read again: the
\* first fixture is truthy, the one the test has now is another one with
\* name None.
C22_Witness ==
    /\ started = 4 /\ last.ev = "read" /\ last.attributes[1][1] = "setup"
    /\ heap[1].kind = "Test" /\ Len(heap) = 3
    /\ heap[2].name = S("setup kw") /\ Bool(heap[2])
    /\ heap[1].setup = 3 /\ heap[3].name = None /\ ~Bool(heap[3])
    /\ heap[3].type = S("SETUP")

---------------------------------------------------------------------------
(* Legacy kw elements *)

LegacyInit == InitOf("legacy")

LegacySpec == LegacyInit /\ [][Next]_vars

\* The step opens a kw element on a node: KeywordHandler.start is called.
KwOpen ==
    /\ IsStart /\ EventElem.tag = "kw" /\ last'.called /\ Node # NullRef
    /\ TopOf(stack).handler.cls \in {"TestHandler", "KeywordHandler"}

\* The type attribute of the kw element in lower case, "" if absent.
KwType ==
    IF Has(EventElem, "type") THEN Lower(EventElem.attrib.type) ELSE ""

\* The step appended one new node to the parent's body and pushed it.
AddedToBody ==
    /\ err' = NoError
    /\ Len(heap') = Len(heap) + 1
    /\ TopOf(stack').result = Len(heap')
    /\ heap'[Node].body = Append(heap[Node].body, Len(heap'))

\* C23 as stated: a kw element of type for becomes a For node and one of
\* type foritem or iteration an Iteration node; type setup or teardown
\* configures the parent's fixture and adds no body item; without a type a
\* plain Keyword is added to the parent's body; the type is matched
\* case-insensitively.
C23_AsStated ==
    [][ (KwOpen /\ HasAttr(heap[Node], "body")) =>
          /\ KwType = "for" =>
               AddedToBody /\ heap'[Len(heap')].kind = "For"
          /\ KwType \in {"foritem", "iteration"} =>
               AddedToBody /\ heap'[Len(heap')].kind = "Iteration"
          /\ (KwType \in {"setup", "teardown"} /\ HasAttr(heap[Node], KwType)) =>
               /\ err' = NoError
               /\ heap'[Node].body = heap[Node].body
               /\ TopOf(stack').result = heap'[Node][KwType]
          /\ KwType = "" =>
               /\ AddedToBody /\ heap'[Len(heap')].kind = "Keyword"
               /\ heap'[Len(heap')].type = S("KEYWORD") ]_vars

\* C23 amended: a kw element of type for adds a Keyword node whose type is
\* FOR to the parent's body, and one of type foritem or iteration a Keyword
\* node whose type is ITERATION, each with the element's name: not the For
\* and Iteration nodes that for and iter elements produce.  Type setup or
\* teardown configures the parent's fixture and adds no body item; without
\* a type a plain Keyword is added to the parent's body; the type is
\* matched case-insensitively, and a type with no creator raises.
C23_LegacyKw ==
    [][ /\ (KwOpen /\ HasAttr(heap[Node], "body")) =>
          /\ KwType = "for" =>
               /\ AddedToBody /\ heap'[Len(heap')].kind = "Keyword"
               /\ heap'[Len(heap')].type = S("FOR")
               /\ heap'[Len(heap')].name = Get(EventElem, "name")
          /\ KwType \in {"foritem", "iteration"} =>
               /\ AddedToBody /\ heap'[Len(heap')].kind = "Keyword"
               /\ heap'[Len(heap')].type = S("ITERATION")
               /\ heap'[Len(heap')].name = Get(EventElem, "name")
          /\ (KwType \in {"setup", "teardown"} /\ HasAttr(heap[Node], KwType)) =>
               /\ err' = NoError
               /\ heap'[Node].body = heap[Node].body
               /\ TopOf(stack').result = heap'[Node][KwType]
               /\ heap'[heap'[Node][KwType]].name = GetD(EventElem, "name", S(""))
          /\ KwType = "" =>
               /\ AddedToBody /\ heap'[Len(heap')].kind = "Keyword"
               /\ heap'[Len(heap')].type = S("KEYWORD")
          /\ KwType \notin {"", "keyword", "for", "foritem", "iteration",
                            "setup", "teardown"} =>
               err'.type = "AttributeError" /\ heap' = heap /\ stack' = stack
        /\ ( /\ IsStart /\ last'.called /\ Node # NullRef /\ err' = NoError
             /\ EventElem.tag \in {"for", "iter"} ) =>
             heap'[TopOf(stack').result].kind
               = IF EventElem.tag = "for" THEN "For" ELSE "Iteration" ]_vars

\* A test holds the node of a kw element of type FOR and the node of a for
\* element: a Keyword whose type is FOR, and a For.
C23_Witness ==
    /\ err = NoError /\ Len(heap) = 6
    /\ heap[4].kind = "Test" /\ heap[4].body = <<5, 6>>
    /\ heap[5].kind = "Keyword" /\ heap[5].type = S("FOR")
    /\ heap[6].kind = "For"

---------------------------------------------------------------------------
(* The wrapper elements of RF < 4 *)

WrapperInit == InitOf("wrapper")

WrapperSpec == WrapperInit /\ [][Next]_vars

\* The element a leaf element inside a wrapper stands for.
DirectTag(tag) == IF tag = "item" THEN "meta" ELSE tag

\* The innermost open element is a leaf inside its wrapper and the step
\* closes it.
WrappedLeafClose ==
    /\ IsEnd /\ Len(open) >= 2
    /\ open[Len(open)].tag \in LeafTags
    /\ open[Len(open) - 1].tag \in WrapperTags
    /\ stack[Len(stack) - 2].result # NullRef

\* The stack as it is when the leaf is a direct child: without the
\* wrapper's entry, the leaf's handler with the node of the wrapper's
\* parent.
DirectStack ==
    SubSeq(stack, 1, Len(stack) - 2)
      \o << [handler |-> element_handlers[DirectTag(EventElem.tag)],
             result |-> stack[Len(stack) - 2].result] >>

\* C24: the wrapper elements are transparent.  Opening arguments, tags,
\* assign or metadata changes nothing in the tree and pushes the parent's
\* node; closing it changes nothing; and closing an arg, tag, var or item
\* inside its wrapper leaves the tree, and raises, exactly as closing the
\* direct child arg, tag, var or meta with the same attributes and text
\* under the wrapper's parent does.
C24_WrappersTransparent ==
    [][ /\ ( /\ IsStart /\ EventElem.tag \in WrapperTags /\ last'.called
             /\ Node # NullRef ) =>
             /\ err' = NoError /\ heap' = heap
             /\ stack' = Append(stack, [handler |-> element_handlers[EventElem.tag],
                                        result |-> Node])
        /\ (IsEnd /\ EventElem.tag \in WrapperTags) =>
             err' = NoError /\ heap' = heap
        /\ WrappedLeafClose =>
             /\ TopOf(stack).result = stack[Len(stack) - 2].result
             /\ heap' = EndOutcome(DirectStack, heap,
                          [EventElem EXCEPT !.tag = DirectTag(@)]).heap
             /\ err' = EndOutcome(DirectStack, heap,
                         [EventElem EXCEPT !.tag = DirectTag(@)]).exc
      ]_vars

\* A keyword has one argument from an arg element inside arguments and one
\* from a direct arg element.
C24_Witness ==
    /\ err = NoError /\ last.ev = "end" /\ last.elem.tag = "arg"
    /\ Len(open) >= 1 /\ TopOf(open).tag = "kw"
    /\ started = 5
    /\ Len(stack) >= 1 /\ TopOf(stack).result # NullRef
    /\ heap[TopOf(stack).result].kind = "Keyword"
    /\ heap[TopOf(stack).result].args = T(<<S("a"), S("b")>>)

---------------------------------------------------------------------------
(* The statistics section *)

\* The step's event is for a statistics element or for a descendant of one.
InStatistics ==
    \/ IsStart /\ EventElem.tag = "statistics"
    \/ \E i \in 1..Len(open) : open[i].tag = "statistics"

\* The same, the statistics element being handled by the statistics handler.
InHandledStatistics ==
    \/ /\ IsStart /\ EventElem.tag = "statistics" /\ err' = NoError
       /\ TopOf(stack').handler.cls = "StatisticsHandler"
    \/ \E i \in 1..Len(open) :
         open[i].tag = "statistics" /\ stack[i + 1].handler.cls = "StatisticsHandler"

\* C27 as stated: no open or close event of a statistics element or of any
\* of its descendants changes the tree.
C27_AsStated == [][ InStatistics => heap' = heap ]_vars

\* C27 amended: no open or close event of a statistics element handled by
\* the statistics handler (a child of robot, or an element below such a
\* one), or of any of its descendants, changes the tree: the tree after
\* the element closes is the tree before it opened.  (A
\* statistics element below errors is handled as an error message and its
\* close event adds a message.)
C27_StatisticsInert ==
    [][ InHandledStatistics => heap' = heap ]_vars

\* A kw element below statistics has been opened and closed; the tree holds
\* nothing but the result, its suite and its errors.
C27_Witness ==
    /\ err = NoError /\ last.ev = "end" /\ last.elem.tag = "kw"
    /\ Len(open) = 2 /\ open[2].tag = "statistics" /\ open[1].tag = "robot"
    /\ TopOf(stack).handler.cls = "StatisticsHandler"
    /\ Len(heap) = 3

---------------------------------------------------------------------------
(* var elements *)

VarInit == InitOf("var")

VarSpec == VarInit /\ [][Next]_vars

\* The step closes a var element whose handler has a node.
VarClose == IsEnd /\ EventElem.tag = "var" /\ last'.called /\ Node # NullRef

\* The tree after the step is the tree before it with this value in the
\* node's field.
NodeFieldBecomes(field, value) == heap' = [heap EXCEPT ![Node][field] = value]

\* C28: closing a var element appends its text to assign when the node is
\* a Keyword (plain, setup or teardown) or a For, stores it in assign under
\* the element's name when the node is an Iteration, appends it to value
\* when the node is a Var, and raises the 'Invalid element' error, changing
\* nothing, exactly when the node is none of these.
C28_VarEnd ==
    [][ VarClose =>
          CASE heap[Node].kind \in {"Keyword", "For"} ->
                 /\ err' = NoError
                 /\ NodeFieldBecomes("assign",
                        T(Append(heap[Node].assign.tuple, TextOrEmpty(EventElem))))
            [] heap[Node].kind = "Iteration" ->
                 /\ err' = NoError
                 /\ NodeFieldBecomes("assign",
                        M(MapPut(heap[Node].assign.map, Get(EventElem, "name"),
                                 TextOrEmpty(EventElem))))
            [] heap[Node].kind = "Var" ->
                 /\ err' = NoError
                 /\ NodeFieldBecomes("value",
                        T(Append(heap[Node].value.tuple, TextOrEmpty(EventElem))))
            [] OTHER ->
                 /\ err' = InvalidElement("var", heap[Node].kind)
                 /\ heap' = heap
      ]_vars

---------------------------------------------------------------------------
(* The legacy timestamp parser on its own *)

\* The values of a legacy timestamp attribute: absent, empty, "N/A" or a
\* timestamp.
StampInputs == {None, S(""), S("N/A")} \cup { S(Text(cs)) : cs \in StampChars }

StampInit ==
    /\ profile = "timestamps"
    /\ stack = <<>>
    /\ open = <<>>
    /\ heap = <<>>
    /\ started = 0
    /\ err = NoError
    /\ \E ts \in StampInputs : last = Call("init", NullRef, <<ts>>, None)

\* self._parse_legacy_timestamp(ts)
ParseStamp ==
    /\ started = 0
    /\ started' = 1
    /\ err' = _parse_legacy_timestamp(last.attributes[1]).exc
    /\ last' = Call("_parse_legacy_timestamp", NullRef, last.attributes,
                    _parse_legacy_timestamp(last.attributes[1]).val)
    /\ UNCHANGED <<stack, open, heap, profile>>

StampNext == ParseStamp

StampSpec == StampInit /\ [][StampNext]_vars

\* C29: the legacy parser returns no timestamp for an absent, empty or
\* "N/A" value; for a timestamp it returns the year, month, day, hour,
\* minute and second written at positions 0-4, 4-6, 6-8, 9-11, 12-14 and
\* 15-17, whatever characters stand between them, and the microseconds of
\* positions 18-24 after padding with "0": milliseconds times 1000, and 0
\* when no fraction is written.
C29_LegacyParser ==
    [][ IsCall("_parse_legacy_timestamp") =>
          /\ last'.attributes[1] \in {None, S(""), S("N/A")} =>
               err' = NoError /\ last'.ret = None
          /\ \A y \in StampYears, mo \in StampMonths, d \in StampDays,
                h \in StampHours, mi \in StampMinutes, sec \in StampSeconds,
                ms \in StampMillis, seps \in StampSeparators :
               last'.attributes[1] = S(Text(Stamp(y, mo, d, h, mi, sec, ms, seps))) =>
                 /\ err' = NoError
                 /\ last'.ret = DateTime(y, mo, d, h, mi, sec,
                                         IF ms < 0 THEN 0 ELSE ms * 1000)
      ]_vars

\* A millisecond timestamp has been parsed.
C29_Witness ==
    /\ last.ev = "_parse_legacy_timestamp"
    /\ last.attributes[1] = S("19991231 23:59:59.123")
    /\ last.ret = DateTime(1999, 12, 31, 23, 59, 59, 123000)

---------------------------------------------------------------------------
(* arg, value and pattern elements *)

TextInit == InitOf("text")

TextSpec == TextInit /\ [][Next]_vars

\* The field of the node an element's text is appended to.
FieldOf(tag) ==
    CASE tag = "arg" -> "args" [] tag = "value" -> "values"
      [] tag = "pattern" -> "patterns"

\* C30: the close event of an arg, value or pattern element appends the
\* element's text, the empty string when it has none, at the end of the
\* node's args, values or patterns: the earlier elements stay in place and
\* in order and nothing else in the tree changes, so the field lists the
\* texts of the children in the order of their close events.
C30_TextAppended ==
    [][ ( /\ IsEnd /\ EventElem.tag \in TextTags /\ last'.called
          /\ Node # NullRef ) =>
          /\ err' = NoError
          /\ heap' = [heap EXCEPT ![Node][FieldOf(EventElem.tag)] =
                        T(Append(@.tuple,
                                 IF EventElem.text = None THEN S("")
                                 ELSE EventElem.text))]
      ]_vars

\* A keyword's second arg element, without text, has been closed after one
\* with text.
C30_Witness ==
    /\ err = NoError /\ last.ev = "end" /\ last.elem.tag = "arg"
    /\ last.elem.text = None
    /\ Len(stack) >= 1 /\ TopOf(stack).result # NullRef
    /\ heap[TopOf(stack).result].kind = "Keyword"
    /\ heap[TopOf(stack).result].args = T(<<S("b"), S("")>>)

---------------------------------------------------------------------------
(* The order of the items of a body *)

----------------------------------------------------------------------------
(* The order in which config assigns *)

\* The object holds what config's assignment of this name/value pair gives
\* it: the value, made a tuple if the attribute held one; for tags a new
\* collection of the given tags; for a read-only attribute, whose
\* assignment is rejected and the rejection ignored, the value it had.
HoldsAssigned(h, h2, self, pair) ==
    IF pair[1] \in ReadOnlyAttrs THEN h2[self][pair[1]] = h[self][pair[1]]
    ELSE IF pair[1] = "tags" /\ (IsList(pair[2]) \/ IsTuple(pair[2]))
    THEN /\ h2[self].tags.ref \notin 1..Len(h)
         /\ h2[h2[self].tags.ref]
              = NewTags(Strs(IF IsList(pair[2]) THEN pair[2].list
                             ELSE pair[2].tuple))
    ELSE h2[self][pair[1]] = AsAssigned(h[self][pair[1]], pair[2])

\* C32: config assigns the attributes in the order given and stops at the
\* first that fails: the call raises an error about that attribute and
\* returns nothing, the attributes before it hold what was assigned to
\* them, and that attribute and the later ones hold what they held before
\* the call.  When none fails, every attribute holds what was assigned and
\* the call returns the object it was called on.
C32_ConfigInOrder ==
    [][ IsCall("config") =>
          LET self == last'.self
              attributes == last'.attributes
          IN  /\ \A i \in 1..Len(attributes) :
                   OffendsAt(heap[self], attributes, i) =>
                     /\ err'.type \in {"AttributeError", "TypeError"}
                     /\ err'.attr = attributes[i][1]
                     /\ last'.ret = NullRef
                     /\ \A j \in 1..(i - 1) :
                          HoldsAssigned(heap, heap', self, attributes[j])
                     /\ \A j \in i..Len(attributes) :
                          HasAttr(heap[self], attributes[j][1]) =>
                            heap'[self][attributes[j][1]]
                              = heap[self][attributes[j][1]]
              /\ (\A i \in 1..Len(attributes) :
                    Passes(heap[self], attributes[i])) =>
                   /\ err' = NoError
                   /\ last'.ret = self
                   /\ \A j \in 1..Len(attributes) :
                        HoldsAssigned(heap, heap', self, attributes[j])
      ]_vars

\* config(doc="New", args=None, name="New") on a keyword has raised a
\* TypeError about args: the doc is the new one, the args and the name are
\* the old ones.
C32_Witness ==
    /\ last.ev = "config"
    /\ last.attributes
         = << <<"doc", S("New")>>, <<"args", None>>, <<"name", S("New")>> >>
    /\ err.type = "TypeError" /\ err.attr = "args"
    /\ last.ret = NullRef
    /\ heap[last.self].kind = "Keyword"
    /\ heap[last.self].doc = S("New")
    /\ heap[last.self].args = T(<<S("a")>>)
    /\ heap[last.self].name = S("kw")

OrderInit == InitOf("order")

OrderSpec == OrderInit /\ [][Next]_vars

\* The attributes holding the children of a node in order.
Collections == {"body", "suites", "tests", "messages"}

\* The step's event places the item by the position of its open tag: it is
\* an open event, or the close event of an element opened by the event
\* before it (a message is created when it closes and has no children).
PlacedByOpenTag ==
    \/ IsStart /\ EventElem.tag # "msg"
    \/ IsEnd /\ last.ev = "start" /\ last.elem.tag = EventElem.tag

\* C31: the items of every body, and the child suites and tests of every
\* suite, are in document order: an event leaves every collection as it is
\* or adds one new object at its end, the earlier items keeping their
\* places, and it does so at the item's open event, or for a message at its
\* close event, which no other event separates from its open event.
C31_DocumentOrder ==
    [][ \A i \in 1..Len(heap) : \A f \in Collections \cap DOMAIN heap[i] :
          \/ heap'[i][f] = heap[i][f]
          \/ /\ heap'[i][f] = Append(heap[i][f], TopOf(heap'[i][f]))
             /\ TopOf(heap'[i][f]) > Len(heap)
             /\ PlacedByOpenTag
      ]_vars

\* A test's body holds a keyword, a message and a for loop, opened in this
\* order.
C31_Witness ==
    /\ err = NoError /\ Len(open) = 3 /\ open[2].tag = "test" /\ open[3].tag = "for"
    /\ Len(stack) = 4 /\ stack[3].result # NullRef
    /\ heap[stack[3].result].kind = "Test"
    /\ Len(heap[stack[3].result].body) = 3
    /\ heap[heap[stack[3].result].body[1]].kind = "Keyword"
    /\ heap[heap[stack[3].result].body[2]].kind = "Message"
    /\ heap[heap[stack[3].result].body[3]].kind = "For"

---------------------------------------------------------------------------
(* robot.utils.importer.  A name or path is a record: `path` tells a        *)
(* pathlib.Path from a str, `abs` is os.path.isabs, `dir` the directory     *)
(* part ("" when there is none) and `parts` the last component split at     *)
(* its dots.  Messages and sources are strings.                             *)

MaxImports == 2

Name(path, abs, dir, parts) ==
    [path |-> path, abs |-> abs, dir |-> dir, parts |-> parts]

RECURSIVE Join(_)
\* ".".join(parts)
Join(parts) ==
    IF Len(parts) = 1 THEN parts[1]
    ELSE Join(Front(parts)) \o "." \o TopOf(parts)

\* str(name_or_path)
Str(n) == (IF n.dir = "" THEN "" ELSE n.dir \o "/") \o Join(n.parts)

\* os.path.splitext(path): (root, extension)
Stem(n) == IF Len(n.parts) > 1 THEN Front(n.parts) ELSE n.parts
Ext(n) == IF Len(n.parts) > 1 THEN "." \o TopOf(n.parts) ELSE ""

\* Path.absolute() / abspath(): the working directory is /cwd.
Absolute(n) ==
    IF n.abs THEN n
    ELSE [n EXCEPT !.abs = TRUE,
                   !.dir = IF @ = "" THEN "/cwd" ELSE "/cwd/" \o @]

\* The files and directories on disk: directory, file name.
Disk ==
    { <<"/lib", <<"Lib", "py">> >>, <<"/lib", <<"mod", "py">> >>,
      <<"/lib", <<"bad", "py">> >>, <<"/lib", <<"pkg">> >>,
      <<"/lib/pkg", <<"__init__", "py">> >>,
      <<"/d", <<"Lib", "py">> >>, <<"/d", <<"bad", "py">> >>,
      <<"/d", <<"note", "txt">> >>, <<"/d", <<"pkg">> >>,
      <<"/d/pkg", <<"__init__", "py">> >>,
      <<"/cwd/rel", <<"Lib", "py">> >> }

DiskPaths == { e[1] \o "/" \o Join(e[2]) : e \in Disk }

\* os.path.exists(path)
Exists(n) == <<Absolute(n).dir, n.parts>> \in Disk

\* os.path.dirname(dir) of a package's directory
Dirname(dir) ==
    IF \E e \in Disk : e[1] \o "/" \o Join(e[2]) = dir
    THEN (CHOOSE e \in Disk : e[1] \o "/" \o Join(e[2]) = dir)[1]
    ELSE dir

\* sys.builtin_module_names
BuiltinModuleNames == {"sys"}

\* What running the module's file does: raise, or define these attributes.
\* "library" is a class decorated with ROBOT_AUTO_KEYWORDS.
ModuleAt(file) ==
    CASE Str(file) \in {"/lib/bad.py", "/d/bad.py"} ->
           [raises |-> TRUE, members |-> NoAttrib]
      [] Str(file) \in {"/lib/Lib.py", "/d/Lib.py", "/cwd/rel/Lib.py"} ->
           [raises |-> FALSE, members |-> [Lib |-> "class"]]
      [] Str(file) = "/lib/mod.py" ->
           [raises |-> FALSE, members |-> [fn |-> "function", Keywords |-> "library"]]
      [] Str(file) = "/lib/pkg/__init__.py" ->
           [raises |-> FALSE, members |-> [Cls |-> "class", fn |-> "function"]]
      [] OTHER -> [raises |-> FALSE, members |-> NoAttrib]

\* Module, class and function objects.
ModuleObj(name, file) == [module |-> name, file |-> file]
ClassObj(name, module, auto) == [class |-> name, of |-> module, auto |-> auto]
FunctionObj(name, module) == [function |-> name, of |-> module]

\* inspect.isclass / inspect.ismodule
isclass(v) == "class" \in DOMAIN v
ismodule(v) == "module" \in DOMAIN v

\* getattr(obj, name, None)
getattr(obj, name) ==
    IF ~ismodule(obj) THEN None
    ELSE IF name \notin DOMAIN ModuleAt(obj.file).members THEN None
    ELSE IF ModuleAt(obj.file).members[name] = "function"
    THEN FunctionObj(name, obj)
    ELSE ClassObj(name, obj, ModuleAt(obj.file).members[name] = "library")

\* The interpreter: sys.path and sys.modules (module name to its __file__).
Interpreter(sys_path, sys_modules) ==
    [kind |-> "Interpreter", sys_path |-> sys_path, sys_modules |-> sys_modules]

\* The file the import system finds for the module name, None if none: the
\* first directory of sys.path holding the package or the module.
FindSpec(sys_path, name) ==
    IF \E i \in 1..Len(sys_path) :
          {<<sys_path[i], <<name>> >>, <<sys_path[i], <<name, "py">> >>} \cap Disk # {}
    THEN LET i == CHOOSE i \in 1..Len(sys_path) :
                    /\ {<<sys_path[i], <<name>> >>, <<sys_path[i], <<name, "py">> >>}
                          \cap Disk # {}
                    /\ \A j \in 1..(i - 1) :
                         {<<sys_path[j], <<name>> >>, <<sys_path[j], <<name, "py">> >>}
                           \cap Disk = {}
         IN  IF <<sys_path[i], <<name>> >> \in Disk
             THEN Name(FALSE, TRUE, sys_path[i] \o "/" \o name, <<"__init__", "py">>)
             ELSE Name(FALSE, TRUE, sys_path[i], <<name, "py">>)
    ELSE None

Exception(msg) == [type |-> "Exception", msg |-> msg]
DataError(msg) == [type |-> "DataError", msg |-> msg]

\* __import__(name, fromlist=...): the module in sys.modules, else the one
\* found on sys.path, run and entered into sys.modules; a name that is no
\* module name, is not found or whose code raises gives an exception.
__import__(h, m) ==
    IF m.dir # "" \/ Len(m.parts) # 1
    THEN Raise(h, Exception("No module named '" \o Str(m) \o "'"))
    ELSE IF m.parts[1] \in DOMAIN h[1].sys_modules
    THEN Ret(h, ModuleObj(m.parts[1], h[1].sys_modules[m.parts[1]]))
    ELSE IF FindSpec(h[1].sys_path, m.parts[1]) = None
    THEN Raise(h, Exception("No module named '" \o Str(m) \o "'"))
    ELSE IF ModuleAt(FindSpec(h[1].sys_path, m.parts[1])).raises
    THEN Raise(h, Exception("boom"))
    ELSE Ret([h EXCEPT ![1].sys_modules =
                 [k \in DOMAIN @ \cup {m.parts[1]} |->
                    IF k = m.parts[1] THEN FindSpec(h[1].sys_path, m.parts[1])
                    ELSE @[k]]],
             ModuleObj(m.parts[1], FindSpec(h[1].sys_path, m.parts[1])))

---------------------------------------------------------------------------
(* _Importer and its three subclasses *)

\* "\n".join(f"  {p}" for p in sys.path)
RECURSIVE PythonPath(_)
PythonPath(sys_path) ==
    IF sys_path = <<>> THEN ""
    ELSE IF Len(sys_path) = 1 THEN "  " \o sys_path[1]
    ELSE "  " \o sys_path[1] \o "\n" \o PythonPath(Tail(sys_path))

\* _Importer._import, the except clause: the message of the exception (the
\* traceback lines are left out) and the module search path.
ImportError(out) ==
    IF out.exc = NoError THEN out
    ELSE Raise(out.heap,
               DataError(out.exc.msg \o "\nPYTHONPATH:\n"
                           \o PythonPath(out.heap[1].sys_path)))

\* _Importer._import
_import(h, m) ==
    IF Str(m) \in BuiltinModuleNames
    THEN Raise(h, DataError("Cannot import custom module with same name as Python built-in module."))
    ELSE ImportError(__import__(h, m))

\* type_name(item)
type_name(v) == IF "function" \in DOMAIN v THEN "function" ELSE "object"

\* _Importer._verify_type
_verify_type(imported) ==
    IF isclass(imported) \/ ismodule(imported) THEN Val(imported)
    ELSE Exc(DataError("Expected class or module, got " \o type_name(imported) \o "."))

\* _Importer._get_class_matching_module_name
_get_class_matching_module_name(module, name) ==
    IF isclass(getattr(module, name)) THEN getattr(module, name) ELSE None

\* _Importer._get_decorated_library_class_in_imported_module
_get_decorated_library_class_in_imported_module(module) ==
    LET classes == IF ismodule(module)
                   THEN { n \in DOMAIN ModuleAt(module.file).members :
                            ModuleAt(module.file).members[n] = "library" }
                   ELSE {}
    IN  IF Cardinality(classes) = 1
        THEN getattr(module, CHOOSE n \in classes : TRUE)
        ELSE None

\* obj.__name__
NameOf(obj) ==
    IF ismodule(obj) THEN obj.module
    ELSE IF isclass(obj) THEN obj.class ELSE obj.function

\* Variant: the class matching the module's name is not looked for.
_get_possible_class_Module(module, name, library_import) == module

\* _Importer._get_possible_class: name is None or the name to look for.
_get_possible_class(module, name, library_import) ==
    LET cls == _get_class_matching_module_name(
                   module, IF name = None THEN NameOf(module) ELSE name.str)
    IN  IF cls # None THEN cls
        ELSE IF library_import
                  /\ _get_decorated_library_class_in_imported_module(module) # None
        THEN _get_decorated_library_class_in_imported_module(module)
        ELSE module

\* _Importer._get_source: inspect.getfile of the module or of the module
\* defining the class or function.
_get_source(imported) ==
    IF ismodule(imported) THEN S(Str(Absolute(imported.file)))
    ELSE S(Str(Absolute(imported.of.file)))

\* The value import_ returns: (imported, source)
Imported(imported, source) == [imported |-> imported, source |-> source]

\* import_, its last statements in each importer: the possible class, the
\* type verification and the source (path: the verified path of the by-path
\* importer, None for the others, which ask the imported item).
Finish(out, get_class, name, library_import, path) ==
    IF out.exc # NoError THEN out
    ELSE LET imported == IF get_class
                         THEN _get_possible_class(out.ref, name, library_import)
                         ELSE out.ref
         IN  IF _verify_type(imported).exc # NoError
             THEN Raise(out.heap, _verify_type(imported).exc)
             ELSE Ret(out.heap,
                      Imported(imported,
                               IF path = None THEN _get_source(imported) ELSE path))

\* ByPathImporter.handles
ByPathHandles(n) == n.abs \/ n.path

\* ByPathImporter._verify_import_path
_verify_import_path(n) ==
    IF ~Exists(n) THEN Exc(DataError("File or directory does not exist."))
    ELSE IF ~n.abs /\ ~n.path THEN Exc(DataError("Import path must be absolute."))
    ELSE IF Ext(Absolute(n)) \notin {".py", ""}
    THEN Exc(DataError("Not a valid file or directory to import."))
    ELSE Val(Absolute(n))

\* ByPathImporter._split_path_to_module
_split_path_to_module(path) ==
    [dir |-> Absolute(path).dir, name |-> Join(Stem(path))]

\* ByPathImporter._get_import_information
_get_import_information(source) ==
    IF _split_path_to_module(source).name = "__init__"
    THEN [from |-> Dirname(_split_path_to_module(source).dir), package |-> TRUE]
    ELSE [from |-> _split_path_to_module(source).dir, package |-> FALSE]

\* ByPathImporter._wrong_module_imported
_wrong_module_imported(h, name, importing_from, importing_package) ==
    /\ name \in DOMAIN h[1].sys_modules
    /\ \/ importing_from # _get_import_information(h[1].sys_modules[name]).from
       \/ importing_package # _get_import_information(h[1].sys_modules[name]).package

\* ByPathImporter._remove_wrong_module_from_sys_modules
_remove_wrong_module_from_sys_modules(h, path) ==
    IF _wrong_module_imported(h, _split_path_to_module(path).name,
                              _split_path_to_module(path).dir, Ext(path) = "")
    THEN [h EXCEPT ![1].sys_modules =
             [k \in DOMAIN @ \ {_split_path_to_module(path).name} |-> @[k]]]
    ELSE h

\* list.remove(x): without the first x
RECURSIVE Remove(_, _)
Remove(seq, x) ==
    IF seq = <<>> THEN <<>>
    ELSE IF Head(seq) = x THEN Tail(seq)
    ELSE <<Head(seq)>> \o Remove(Tail(seq), x)

\* Variant: the directory is removed only when the import succeeds.
Finally_OnSuccess(out, module_dir) ==
    IF out.exc = NoError
    THEN [out EXCEPT !.heap[1].sys_path = Remove(@, module_dir)]
    ELSE out

\* try: ... finally: sys.path.remove(module_dir)
Finally(out, module_dir) ==
    [out EXCEPT !.heap[1].sys_path = Remove(@, module_dir)]

\* ByPathImporter._import_by_path
_import_by_path(h, path) ==
    Finally(_import([h EXCEPT ![1].sys_path =
                        <<_split_path_to_module(path).dir>> \o @],
                    Name(FALSE, FALSE, "", <<_split_path_to_module(path).name>>)),
            _split_path_to_module(path).dir)

\* ByPathImporter.import_, after the path is verified
ByPathImported(h, verified, get_class, library_import) ==
    IF verified.exc # NoError THEN Raise(h, verified.exc)
    ELSE Finish(_import_by_path(
                    _remove_wrong_module_from_sys_modules(h, verified.val),
                    verified.val),
                get_class, None, library_import, S(Str(verified.val)))

\* ByPathImporter.import_
ByPathImport(h, n, get_class, library_import) ==
    ByPathImported(h, _verify_import_path(n), get_class, library_import)

\* NonDottedImporter.handles
NonDottedHandles(n) == Len(n.parts) = 1

\* NonDottedImporter.import_
NonDottedImport(h, n, get_class, library_import) ==
    Finish(_import(h, n), get_class, None, library_import, None)

\* DottedImporter.handles
DottedHandles(n) == Len(n.parts) > 1

\* DottedImporter.import_, from the getattr on: the parent is imported.
DottedFromParent(out, parent_name, lib_name) ==
    IF out.exc # NoError THEN out
    ELSE IF getattr(out.ref, lib_name) = None
    THEN Raise(out.heap, DataError("Module '" \o parent_name \o "' does not contain '"
                                     \o lib_name \o "'."))
    ELSE Ret(out.heap, getattr(out.ref, lib_name))

\* DottedImporter.import_
DottedImport(h, n, get_class, library_import) ==
    Finish(DottedFromParent(_import(h, [n EXCEPT !.parts = Front(@)]),
                            Str([n EXCEPT !.parts = Front(@)]), TopOf(n.parts)),
           get_class, S(TopOf(n.parts)), library_import, None)

---------------------------------------------------------------------------
(* Importer *)

\* str.upper() on the importer's type
Upper(s) ==
    CASE s = "Library" -> "LIBRARY" [] OTHER -> s

\* Importer.__init__ (the logger is NoLogger: logging changes no state)
Importer(type) ==
    [kind |-> "Importer", type |-> IF Truthy(type) THEN type.str ELSE "",
     library_import |-> Truthy(type) /\ Upper(type.str) = "LIBRARY"]

\* Variant: the importers are asked in the opposite order.
Importer_import_Reversed(h, name, get_class) ==
    IF DottedHandles(name)
    THEN DottedImport(h, name, get_class, h[2].library_import)
    ELSE IF NonDottedHandles(name)
    THEN NonDottedImport(h, name, get_class, h[2].library_import)
    ELSE IF ByPathHandles(name)
    THEN ByPathImport(h, name, get_class, h[2].library_import)
    ELSE Raise(h, [type |-> "AssertionError", msg |-> ""])

\* Importer._import: the first importer that handles the name imports it.
Importer_import(h, name, get_class) ==
    IF ByPathHandles(name)
    THEN ByPathImport(h, name, get_class, h[2].library_import)
    ELSE IF NonDottedHandles(name)
    THEN NonDottedImport(h, name, get_class, h[2].library_import)
    ELSE IF DottedHandles(name)
    THEN DottedImport(h, name, get_class, h[2].library_import)
    ELSE Raise(h, [type |-> "AssertionError", msg |-> ""])

\* os.path.isdir(source)
IsDir(source) == \E e \in Disk : e[1] = source

\* Importer._sanitize_source (no .pyc file is on the disk)
_sanitize_source(source) ==
    IF IsDir(source) /\ (source \o "/__init__.py") \in DiskPaths
    THEN source \o "/__init__.py"
    ELSE source

\* Importer._handle_return_values
_handle_return_values(imported, source, return_source) ==
    IF ~return_source THEN imported
    ELSE IF Truthy(source) /\ (source.str \in DiskPaths \/ IsDir(source.str))
    THEN T(<<imported, S(_sanitize_source(source.str))>>)
    ELSE T(<<imported, source>>)

\* Variant: the error is raised as it is.
_raise_import_failed_Bare(type, name, error) == error

\* Importer._raise_import_failed: the DataError raised
_raise_import_failed(type, name, error) ==
    DataError((IF type # "" THEN "Importing " \o Lower(type) ELSE "Importing")
                \o " '" \o Str(name) \o "' failed: " \o error.msg)

\* The arguments ArgumentSpec.resolve accepts for the class's __init__:
\* Lib takes at most one, every other class none; an argument "=" makes
\* resolve raise ValueError and "boom" makes __init__ raise.
MaxArgs(cls) == IF cls.class = "Lib" THEN 1 ELSE 0

\* Variant: a class is instantiated only with a non-empty argument list.
_instantiate_class_NonEmpty(imported, args) ==
    IF args = <<>> THEN Val(imported)
    ELSE Val([instance |-> imported, args |-> args])

\* Importer._instantiate_class
_instantiate_class(imported, args) ==
    IF \E i \in 1..Len(args) : args[i] = "="
    THEN Exc(DataError("Invalid argument"))
    ELSE IF Len(args) > MaxArgs(imported)
    THEN Exc(DataError("Too many arguments"))
    ELSE IF \E i \in 1..Len(args) : args[i] = "boom"
    THEN Exc(DataError("Creating instance failed: boom\n"))
    ELSE Val([instance |-> imported, args |-> args])

\* Importer._instantiate_if_needed
_instantiate_if_needed(imported, args) ==
    IF args = None THEN Val(imported)
    ELSE IF isclass(imported) THEN _instantiate_class(imported, args.list)
    ELSE IF args.list # <<>> THEN Exc(DataError("Modules do not take arguments."))
    ELSE Val(imported)

\* except DataError as err: self._raise_import_failed(name, err)
ExceptDataError(h, name, out) ==
    IF out.exc # NoError /\ out.exc.type = "DataError"
    THEN Raise(out.heap, _raise_import_failed(h[2].type, name, out.exc))
    ELSE out

\* import_class_or_module, the try block after self._import
InstantiateImported(out, args) ==
    IF out.exc # NoError THEN out
    ELSE IF _instantiate_if_needed(out.ref.imported, args).exc # NoError
    THEN Raise(out.heap, _instantiate_if_needed(out.ref.imported, args).exc)
    ELSE Ret(out.heap, [out.ref EXCEPT
                           !.imported = _instantiate_if_needed(@, args).val])

\* import_class_or_module, the else block
ReturnValues(out, return_source) ==
    IF out.exc # NoError THEN out
    ELSE Ret(out.heap,
             _handle_return_values(out.ref.imported, out.ref.source, return_source))

\* Importer.import_class_or_module
import_class_or_module(h, name_or_path, instantiate_with_args, return_source) ==
    ReturnValues(
        ExceptDataError(h, name_or_path,
            InstantiateImported(Importer_import(h, name_or_path, TRUE),
                                instantiate_with_args)),
        return_source)

\* Importer.import_module
import_module(h, name_or_path) ==
    ReturnValues(
        ExceptDataError(h, name_or_path, Importer_import(h, name_or_path, FALSE)),
        FALSE)

\* Importer.import_class_or_module_by_path
import_class_or_module_by_path(h, path, instantiate_with_args) ==
    ReturnValues(
        ExceptDataError(h, path,
            InstantiateImported(ByPathImport(h, path, TRUE, h[2].library_import),
                                instantiate_with_args)),
        FALSE)

---------------------------------------------------------------------------
(* The importer's callers: names, paths and arguments given to one        *)
(* Importer; the source is asked for in calls that do not instantiate.     *)

ImporterTypes == { None, S("Library") }

ImportNames ==
    { Name(FALSE, FALSE, "", <<"Lib">>), Name(FALSE, FALSE, "", <<"mod">>),
      Name(FALSE, FALSE, "", <<"bad">>), Name(FALSE, FALSE, "", <<"sys">>),
      Name(FALSE, FALSE, "", <<"nope">>),
      Name(FALSE, FALSE, "", <<"pkg", "Cls">>), Name(FALSE, FALSE, "", <<"pkg", "fn">>),
      Name(FALSE, FALSE, "", <<"pkg", "nope">>) }

ImportPaths ==
    { Name(FALSE, TRUE, "/d", <<"Lib", "py">>), Name(FALSE, TRUE, "/d", <<"none", "py">>),
      Name(FALSE, TRUE, "/d", <<"note", "txt">>), Name(FALSE, TRUE, "/d", <<"bad", "py">>),
      Name(FALSE, TRUE, "/d", <<"pkg">>), Name(FALSE, TRUE, "/lib", <<"pkg">>),
      Name(FALSE, FALSE, "rel", <<"Lib", "py">>), Name(TRUE, FALSE, "rel", <<"Lib", "py">>) }

ImportArgs ==
    { None, L(<<>>), L(<<"x">>), L(<<"boom">>), L(<<"=">>) }

\* A call that raises returns nothing.
Returned(out) == IF out.exc # NoError THEN [out EXCEPT !.ref = None] ELSE out

ImpInit ==
    /\ profile = "importer"
    /\ stack = <<>>
    /\ open = <<>>
    /\ started = 0
    /\ err = NoError
    /\ \E type \in ImporterTypes :
         heap = << Interpreter(<<"/lib">>, NoAttrib), Importer(type) >>
    /\ last = Call("init", 2, <<>>, None)

CallImportClassOrModule ==
    /\ started < MaxImports
    /\ \E name \in ImportNames \cup ImportPaths, args \in ImportArgs,
          return_source \in BOOLEAN :
         /\ return_source => args = None
         /\ Called("import_class_or_module", 2, <<name, args, B(return_source)>>,
                Returned(import_class_or_module(heap, name, args, return_source)))

CallImportModule ==
    /\ started < MaxImports
    /\ \E name \in ImportNames \cup ImportPaths :
         Called("import_module", 2, <<name, None, B(FALSE)>>,
                Returned(import_module(heap, name)))

CallImportByPath ==
    /\ started < MaxImports
    /\ \E path \in ImportPaths \cup {Name(FALSE, FALSE, "", <<"Lib">>)},
          args \in ImportArgs :
         Called("import_class_or_module_by_path", 2, <<path, args, B(FALSE)>>,
                Returned(import_class_or_module_by_path(heap, path, args)))

ImpNext ==
    \/ CallImportClassOrModule
    \/ CallImportModule
    \/ CallImportByPath

ImpSpec == ImpInit /\ [][ImpNext]_vars

---------------------------------------------------------------------------
(* Properties of the importer *)

ImportCalls ==
    {"import_class_or_module", "import_module", "import_class_or_module_by_path"}

\* The messages of the errors raised inside an import, by where they arise.
PathCauses ==
    { "File or directory does not exist.", "Import path must be absolute.",
      "Not a valid file or directory to import." }
ImportCauses ==
    { m \o "\nPYTHONPATH:\n" \o p :
        m \in {"boom", "No module named 'nope'", "No module named 'rel/Lib'"},
        p \in {"  /lib", "  /d\n  /lib"} }
      \cup {"Cannot import custom module with same name as Python built-in module."}
      \cup { "Module 'pkg' does not contain '" \o a \o "'." : a \in {"nope", "fn", "Cls"} }
TypeCauses == { "Expected class or module, got function." }
InstantiationCauses ==
    { "Invalid argument", "Too many arguments", "Creating instance failed: boom\n",
      "Modules do not take arguments." }

\* The item a successful call returned.
ItemOf(call) ==
    IF call.attributes[3] = B(TRUE) THEN call.ret.tuple[1] ELSE call.ret

IsInstance(v) == "instance" \in DOMAIN v

\* C25: every import call either returns the imported item (with its
\* source when the source is asked for) or raises a DataError whose
\* message is "Importing [<type> ]'<name or path>' failed: <cause>", the
\* cause being the message of an error raised while verifying the path,
\* importing, verifying the type or instantiating - never an already
\* wrapped message - and a call that raises returns nothing.
C25_ImportFailed ==
    [][ last'.ev \in ImportCalls =>
          \/ /\ err' = NoError
             /\ \/ isclass(ItemOf(last')) \/ ismodule(ItemOf(last'))
                \/ IsInstance(ItemOf(last'))
          \/ /\ err'.type = "DataError"
             /\ last'.ret = None
             /\ \E cause \in PathCauses \cup ImportCauses \cup TypeCauses
                               \cup InstantiationCauses :
                  err'.msg = (IF heap[2].type = "" THEN "Importing"
                              ELSE "Importing " \o Lower(heap[2].type))
                               \o " '" \o Str(last'.attributes[1]) \o "' failed: "
                               \o cause
      ]_vars

\* An import by path of a library fails when the class is instantiated.
C25_Witness ==
    /\ last.ev = "import_class_or_module_by_path"
    /\ err.type = "DataError"
    /\ err.msg = "Importing library '/d/Lib.py' failed: Creating instance failed: boom\n"

\* What the call imported, before any instantiation.
ImportedBy(h, call) ==
    IF call.ev = "import_class_or_module_by_path"
    THEN ByPathImport(h, call.attributes[1], TRUE, h[2].library_import)
    ELSE Importer_import(h, call.attributes[1], TRUE)

\* C26: without arguments (None) the imported class or module is returned
\* as it is; with an argument list, even an empty one, an imported class
\* is instantiated with those arguments; an imported module is returned
\* for an empty list and refused with 'Modules do not take arguments.' for
\* a non-empty one.
C26_Instantiation ==
    [][ ( /\ last'.ev \in ImportCalls \ {"import_module"}
          /\ ImportedBy(heap, last').exc = NoError ) =>
          \E imported \in { ImportedBy(heap, last').ref.imported },
             args \in { last'.attributes[2] } :
            /\ args = None => err' = NoError /\ ItemOf(last') = imported
            /\ (args # None /\ isclass(imported) /\ err' = NoError) =>
                 ItemOf(last') = [instance |-> imported, args |-> args.list]
            /\ (args # None /\ ismodule(imported) /\ args.list = <<>>) =>
                 err' = NoError /\ ItemOf(last') = imported
            /\ (args # None /\ ismodule(imported) /\ args.list # <<>>) =>
                 /\ err'.type = "DataError"
                 /\ err'.msg = (IF heap[2].type = "" THEN "Importing"
                                ELSE "Importing " \o Lower(heap[2].type))
                                 \o " '" \o Str(last'.attributes[1])
                                 \o "' failed: Modules do not take arguments."
      ]_vars

\* A class imported by name is instantiated with an empty argument list.
C26_Witness ==
    /\ last.ev = "import_class_or_module"
    /\ err = NoError
    /\ last.attributes[2] = L(<<>>)
    /\ IsInstance(ItemOf(last))
    /\ ItemOf(last).instance.class = "Lib" /\ ItemOf(last).args = <<>>

\* The importers of Importer._importers, in their order, and the ones among
\* them that handle the name.
Importers == <<"ByPathImporter", "NonDottedImporter", "DottedImporter">>

Handles(importer, n) ==
    CASE importer = "ByPathImporter" -> ByPathHandles(n)
      [] importer = "NonDottedImporter" -> NonDottedHandles(n)
      [] importer = "DottedImporter" -> DottedHandles(n)

HandledBy(n) == { i \in 1..Len(Importers) : Handles(Importers[i], n) }

\* importer.import_(name, get_class)
ImportWith(importer, h, n, get_class) ==
    CASE importer = "ByPathImporter"
           -> ByPathImport(h, n, get_class, h[2].library_import)
      [] importer = "NonDottedImporter"
           -> NonDottedImport(h, n, get_class, h[2].library_import)
      [] importer = "DottedImporter"
           -> DottedImport(h, n, get_class, h[2].library_import)

\* C33: in every import by name or path, some importer handles the name, so
\* no AssertionError is raised; an absolute path string or a Path is handled
\* by the by-path importer; any other name is not, and is handled by exactly
\* one of the non-dotted and dotted importers; and the import is the work of
\* the first importer that handles the name, in the order by-path,
\* non-dotted, dotted: the interpreter is left as that importer leaves it,
\* and the call fails with that importer's error if it raises one.
C33_FirstHandler ==
    [][ last'.ev \in {"import_class_or_module", "import_module"} =>
          \E n \in { last'.attributes[1] } :
            /\ HandledBy(n) # {}
            /\ err' # NoError => err'.type # "AssertionError"
            /\ (n.abs \/ n.path) => 1 \in HandledBy(n)
            /\ ~(n.abs \/ n.path) => HandledBy(n) \in {{2}, {3}}
            /\ \E first \in { i \in HandledBy(n) : \A j \in HandledBy(n) : i <= j } :
               \E out \in { ImportWith(Importers[first], heap, n,
                                       last'.ev = "import_class_or_module") } :
                 /\ heap' = out.heap
                 /\ out.exc # NoError =>
                      err' = _raise_import_failed(heap[2].type, n, out.exc)
      ]_vars

\* The package directory /d/pkg, an absolute path without a dot, which the
\* non-dotted importer handles too, has been imported by its path.
C33_Witness ==
    /\ last.ev = "import_module"
    /\ last.attributes[1] = Name(FALSE, TRUE, "/d", <<"pkg">>)
    /\ NonDottedHandles(last.attributes[1])
    /\ err = NoError
    /\ ismodule(last.ret)
    /\ "pkg" \in DOMAIN heap[1].sys_modules

\* The call imports by path: it is import_class_or_module_by_path, or an
\* import of a name that the by-path importer handles.
IsImportByPath(call) ==
    \/ call.ev = "import_class_or_module_by_path"
    \/ /\ call.ev \in {"import_class_or_module", "import_module"}
       /\ ByPathHandles(call.attributes[1])

\* C34: an import by path, whether it returns or raises, leaves sys.path
\* with the entries it had, in the same order; when the path is refused
\* (it does not exist, is a relative string or has an invalid extension)
\* the call raises with sys.path and sys.modules as they were; and when the
\* import itself fails, the search path it reports has the module's
\* directory in front of the entries of sys.path.
C34_SysPathRestored ==
    [][ IsImportByPath(last') =>
          \E n \in { last'.attributes[1] } :
            /\ heap'[1].sys_path = heap[1].sys_path
            /\ _verify_import_path(n).exc # NoError =>
                 /\ heap' = heap
                 /\ err' = _raise_import_failed(heap[2].type, n,
                                                _verify_import_path(n).exc)
            /\ _verify_import_path(n).exc = NoError =>
                 \E path \in { _verify_import_path(n).val } :
                 \E out \in { _import(
                       [_remove_wrong_module_from_sys_modules(heap, path)
                          EXCEPT ![1].sys_path =
                            <<_split_path_to_module(path).dir>> \o @],
                       Name(FALSE, FALSE, "", <<_split_path_to_module(path).name>>)) } :
                   /\ out.heap[1].sys_path
                        = <<_split_path_to_module(path).dir>> \o heap[1].sys_path
                   /\ heap'[1].sys_modules = out.heap[1].sys_modules
                   /\ out.exc # NoError =>
                        err' = _raise_import_failed(heap[2].type, n, out.exc)
      ]_vars

\* The import of /d/bad.py by its path has failed: the error lists /d in
\* front of /lib as the search path, and sys.path holds /lib alone.
C34_Witness ==
    /\ last.ev = "import_class_or_module_by_path"
    /\ last.attributes[1] = Name(FALSE, TRUE, "/d", <<"bad", "py">>)
    /\ err.type = "DataError"
    /\ err.msg = "Importing '/d/bad.py' failed: boom\nPYTHONPATH:\n  /d\n  /lib"
    /\ heap[1].sys_path = <<"/lib">>

====
